---- MODULE Spec2Model ----
(***************************************************************************)
(* GS1 barcode engine: the AI / Digital Link parsers and the element       *)
(* string processor of src/c-lib/gs1encoders.h (the ai.c part).            *)
(*                                                                         *)
(* A C string is modelled as the sequence of its bytes before the          *)
(* terminating NUL; a byte is a one-character string; a pointer into a     *)
(* string is a 1-based index, Len(s)+1 being the position of the NUL.      *)
(***************************************************************************)
EXTENDS Integers, Sequences, FiniteSets, TLC

VARIABLES
  encoder,  \* the encoder context: errMsg, errFlag, numAIs, aiData
  outStr,   \* the buffer given as dataStr to the last call
  uriBuf,   \* the caller's dlData buffer as gs1_parseDLuri left it
  ret,      \* what the last call returned
  op,       \* the last operation
  input,    \* the input of the last call
  old,      \* the context at the time of the last call
  calls,    \* the number of calls made on the context
  validatedAIs, \* the AIs whose values the last call validated, in order
  decodedVals,  \* the AI values the last gs1_parseDLuri decoded, in order
  dlRoot,       \* dp of the last gs1_parseDLuri: the root of the DL path info, 0 for NULL
  args,         \* the arguments of a call of URIunescape or gs1_validateParity
  result        \* what that call returned and left in its buffer

vars == <<encoder, outStr, uriBuf, ret, op, input, old, calls, validatedAIs, decodedVals,
          dlRoot, args, result>>

(***************************************************************************)
(* Compile-time maxima.  They are set in enc-private.h; the values here    *)
(* are model bounds.                                                       *)
(***************************************************************************)
MAX_AIS == 2
MAX_DATA == 98
MAX_AI_LEN == 90

\* the number of tokens an input is made of, and the number of calls made in
\* a sequence of calls on one context
MaxElems == 3

MaxCalls == 2

\* the length of the buffers given to URIunescape
MaxInLen == 4

\* the length of the digit strings given to gs1_validateParity, the GTINs
\* of its unit test apart
MaxParityLen == 3

\* the length of the buffers given to lookupAIentry, those of its unit test
\* apart
MaxLookupLen == 4

\* the iterations of a loop that are counted
MaxIters == 3

(***************************************************************************)
(* Character sets                                                          *)
(***************************************************************************)
Digits == {"0","1","2","3","4","5","6","7","8","9"}

Upper == {"A","B","C","D","E","F","G","H","I","J","K","L","M",
          "N","O","P","Q","R","S","T","U","V","W","X","Y","Z"}

Lower == {"a","b","c","d","e","f","g","h","i","j","k","l","m",
          "n","o","p","q","r","s","t","u","v","w","x","y","z"}

cset82 == {"!","\"","%","&","'","(",")","*","+",",","-",".","/",
           ":",";","<","=",">","?","_"} \cup Digits \cup Upper \cup Lower

DigitVal(c) ==
  CASE c = "0" -> 0 [] c = "1" -> 1 [] c = "2" -> 2 [] c = "3" -> 3
    [] c = "4" -> 4 [] c = "5" -> 5 [] c = "6" -> 6 [] c = "7" -> 7
    [] c = "8" -> 8 [] c = "9" -> 9

DigitChar(n) ==
  CASE n = 0 -> "0" [] n = 1 -> "1" [] n = 2 -> "2" [] n = 3 -> "3"
    [] n = 4 -> "4" [] n = 5 -> "5" [] n = 6 -> "6" [] n = 7 -> "7"
    [] n = 8 -> "8" [] n = 9 -> "9"

(***************************************************************************)
(* The AI table                                                            *)
(***************************************************************************)
FNC1 == TRUE

NO_FNC1 == FALSE

cset_none == "none"

cset_N == "N"

cset_X == "X"

cset_C == "C"

linter_none == "_"

linter_csum == "csum"

C(cset, mn, mx, l) ==
  [cset |-> cset, min |-> mn, max |-> mx,
   linters |-> IF l = linter_none THEN <<>> ELSE <<l>>]

none_ == C(cset_none, 0, 0, linter_none)

AI(a, f, c1, c2, c3, c4, c5) ==
  [ai |-> a, fnc1 |-> f, parts |-> <<c1, c2, c3, c4, c5>>]

\* a table in which one AI begins with another
ai_table_overlapping ==
  <<
    AI(<<"2","3">>, FNC1, C(cset_N,1,1,linter_none), C(cset_N,1,19,linter_none), none_, none_, none_),
    AI(<<"2","3","5">>, FNC1, C(cset_X,1,28,linter_none), none_, none_, none_, none_)
  >>

ai_table ==
  <<
    AI(<<"0","0">>, NO_FNC1, C(cset_N,18,18,linter_csum), none_, none_, none_, none_),
    AI(<<"0","1">>, NO_FNC1, C(cset_N,14,14,linter_csum), none_, none_, none_, none_),
    AI(<<"0","2">>, NO_FNC1, C(cset_N,14,14,linter_csum), none_, none_, none_, none_),
    AI(<<"1","0">>, FNC1, C(cset_X,1,20,linter_none), none_, none_, none_, none_),
    AI(<<"1","1">>, NO_FNC1, C(cset_N,6,6,linter_none), none_, none_, none_, none_),
    AI(<<"1","2">>, NO_FNC1, C(cset_N,6,6,linter_none), none_, none_, none_, none_),
    AI(<<"1","3">>, NO_FNC1, C(cset_N,6,6,linter_none), none_, none_, none_, none_),
    AI(<<"1","5">>, NO_FNC1, C(cset_N,6,6,linter_none), none_, none_, none_, none_),
    AI(<<"1","6">>, NO_FNC1, C(cset_N,6,6,linter_none), none_, none_, none_, none_),
    AI(<<"1","7">>, NO_FNC1, C(cset_N,6,6,linter_none), none_, none_, none_, none_),
    AI(<<"2","0">>, NO_FNC1, C(cset_N,2,2,linter_none), none_, none_, none_, none_),
    AI(<<"2","1">>, FNC1, C(cset_X,1,20,linter_none), none_, none_, none_, none_),
    AI(<<"2","2">>, FNC1, C(cset_X,1,20,linter_none), none_, none_, none_, none_),
    AI(<<"2","3","5">>, FNC1, C(cset_X,1,28,linter_none), none_, none_, none_, none_),
    AI(<<"2","4","0">>, FNC1, C(cset_X,1,30,linter_none), none_, none_, none_, none_),
    AI(<<"2","4","1">>, FNC1, C(cset_X,1,30,linter_none), none_, none_, none_, none_),
    AI(<<"2","4","2">>, FNC1, C(cset_N,1,6,linter_none), none_, none_, none_, none_),
    AI(<<"2","4","3">>, FNC1, C(cset_X,1,20,linter_none), none_, none_, none_, none_),
    AI(<<"2","5","0">>, FNC1, C(cset_X,1,30,linter_none), none_, none_, none_, none_),
    AI(<<"2","5","1">>, FNC1, C(cset_X,1,30,linter_none), none_, none_, none_, none_),
    AI(<<"2","5","3">>, FNC1, C(cset_N,13,13,linter_csum), C(cset_X,0,17,linter_none), none_, none_, none_),
    AI(<<"2","5","4">>, FNC1, C(cset_X,1,20,linter_none), none_, none_, none_, none_),
    AI(<<"2","5","5">>, FNC1, C(cset_N,13,13,linter_csum), C(cset_N,0,12,linter_none), none_, none_, none_),
    AI(<<"3","0">>, FNC1, C(cset_N,1,8,linter_none), none_, none_, none_, none_),
    AI(<<"3","1","0","0">>, NO_FNC1, C(cset_N,6,6,linter_none), none_, none_, none_, none_),
    AI(<<"3","1","0","1">>, NO_FNC1, C(cset_N,6,6,linter_none), none_, none_, none_, none_),
    AI(<<"3","1","0","2">>, NO_FNC1, C(cset_N,6,6,linter_none), none_, none_, none_, none_),
    AI(<<"3","1","0","3">>, NO_FNC1, C(cset_N,6,6,linter_none), none_, none_, none_, none_),
    AI(<<"3","1","0","4">>, NO_FNC1, C(cset_N,6,6,linter_none), none_, none_, none_, none_),
    AI(<<"3","1","0","5">>, NO_FNC1, C(cset_N,6,6,linter_none), none_, none_, none_, none_),
    AI(<<"3","1","1","0">>, NO_FNC1, C(cset_N,6,6,linter_none), none_, none_, none_, none_),
    AI(<<"3","1","1","1">>, NO_FNC1, C(cset_N,6,6,linter_none), none_, none_, none_, none_),
    AI(<<"3","1","1","2">>, NO_FNC1, C(cset_N,6,6,linter_none), none_, none_, none_, none_),
    AI(<<"3","1","1","3">>, NO_FNC1, C(cset_N,6,6,linter_none), none_, none_, none_, none_),
    AI(<<"3","1","1","4">>, NO_FNC1, C(cset_N,6,6,linter_none), none_, none_, none_, none_),
    AI(<<"3","1","1","5">>, NO_FNC1, C(cset_N,6,6,linter_none), none_, none_, none_, none_),
    AI(<<"3","1","2","0">>, NO_FNC1, C(cset_N,6,6,linter_none), none_, none_, none_, none_),
    AI(<<"3","1","2","1">>, NO_FNC1, C(cset_N,6,6,linter_none), none_, none_, none_, none_),
    AI(<<"3","1","2","2">>, NO_FNC1, C(cset_N,6,6,linter_none), none_, none_, none_, none_),
    AI(<<"3","1","2","3">>, NO_FNC1, C(cset_N,6,6,linter_none), none_, none_, none_, none_),
    AI(<<"3","1","2","4">>, NO_FNC1, C(cset_N,6,6,linter_none), none_, none_, none_, none_),
    AI(<<"3","1","2","5">>, NO_FNC1, C(cset_N,6,6,linter_none), none_, none_, none_, none_),
    AI(<<"3","1","3","0">>, NO_FNC1, C(cset_N,6,6,linter_none), none_, none_, none_, none_),
    AI(<<"3","1","3","1">>, NO_FNC1, C(cset_N,6,6,linter_none), none_, none_, none_, none_),
    AI(<<"3","1","3","2">>, NO_FNC1, C(cset_N,6,6,linter_none), none_, none_, none_, none_),
    AI(<<"3","1","3","3">>, NO_FNC1, C(cset_N,6,6,linter_none), none_, none_, none_, none_),
    AI(<<"3","1","3","4">>, NO_FNC1, C(cset_N,6,6,linter_none), none_, none_, none_, none_),
    AI(<<"3","1","3","5">>, NO_FNC1, C(cset_N,6,6,linter_none), none_, none_, none_, none_),
    AI(<<"3","1","4","0">>, NO_FNC1, C(cset_N,6,6,linter_none), none_, none_, none_, none_),
    AI(<<"3","1","4","1">>, NO_FNC1, C(cset_N,6,6,linter_none), none_, none_, none_, none_),
    AI(<<"3","1","4","2">>, NO_FNC1, C(cset_N,6,6,linter_none), none_, none_, none_, none_),
    AI(<<"3","1","4","3">>, NO_FNC1, C(cset_N,6,6,linter_none), none_, none_, none_, none_),
    AI(<<"3","1","4","4">>, NO_FNC1, C(cset_N,6,6,linter_none), none_, none_, none_, none_),
    AI(<<"3","1","4","5">>, NO_FNC1, C(cset_N,6,6,linter_none), none_, none_, none_, none_),
    AI(<<"3","1","5","0">>, NO_FNC1, C(cset_N,6,6,linter_none), none_, none_, none_, none_),
    AI(<<"3","1","5","1">>, NO_FNC1, C(cset_N,6,6,linter_none), none_, none_, none_, none_),
    AI(<<"3","1","5","2">>, NO_FNC1, C(cset_N,6,6,linter_none), none_, none_, none_, none_),
    AI(<<"3","1","5","3">>, NO_FNC1, C(cset_N,6,6,linter_none), none_, none_, none_, none_),
    AI(<<"3","1","5","4">>, NO_FNC1, C(cset_N,6,6,linter_none), none_, none_, none_, none_),
    AI(<<"3","1","5","5">>, NO_FNC1, C(cset_N,6,6,linter_none), none_, none_, none_, none_),
    AI(<<"3","1","6","0">>, NO_FNC1, C(cset_N,6,6,linter_none), none_, none_, none_, none_),
    AI(<<"3","1","6","1">>, NO_FNC1, C(cset_N,6,6,linter_none), none_, none_, none_, none_),
    AI(<<"3","1","6","2">>, NO_FNC1, C(cset_N,6,6,linter_none), none_, none_, none_, none_),
    AI(<<"3","1","6","3">>, NO_FNC1, C(cset_N,6,6,linter_none), none_, none_, none_, none_),
    AI(<<"3","1","6","4">>, NO_FNC1, C(cset_N,6,6,linter_none), none_, none_, none_, none_),
    AI(<<"3","1","6","5">>, NO_FNC1, C(cset_N,6,6,linter_none), none_, none_, none_, none_),
    AI(<<"3","2","0","0">>, NO_FNC1, C(cset_N,6,6,linter_none), none_, none_, none_, none_),
    AI(<<"3","2","0","1">>, NO_FNC1, C(cset_N,6,6,linter_none), none_, none_, none_, none_),
    AI(<<"3","2","0","2">>, NO_FNC1, C(cset_N,6,6,linter_none), none_, none_, none_, none_),
    AI(<<"3","2","0","3">>, NO_FNC1, C(cset_N,6,6,linter_none), none_, none_, none_, none_),
    AI(<<"3","2","0","4">>, NO_FNC1, C(cset_N,6,6,linter_none), none_, none_, none_, none_),
    AI(<<"3","2","0","5">>, NO_FNC1, C(cset_N,6,6,linter_none), none_, none_, none_, none_),
    AI(<<"3","2","1","0">>, NO_FNC1, C(cset_N,6,6,linter_none), none_, none_, none_, none_),
    AI(<<"3","2","1","1">>, NO_FNC1, C(cset_N,6,6,linter_none), none_, none_, none_, none_),
    AI(<<"3","2","1","2">>, NO_FNC1, C(cset_N,6,6,linter_none), none_, none_, none_, none_),
    AI(<<"3","2","1","3">>, NO_FNC1, C(cset_N,6,6,linter_none), none_, none_, none_, none_),
    AI(<<"3","2","1","4">>, NO_FNC1, C(cset_N,6,6,linter_none), none_, none_, none_, none_),
    AI(<<"3","2","1","5">>, NO_FNC1, C(cset_N,6,6,linter_none), none_, none_, none_, none_),
    AI(<<"3","2","2","0">>, NO_FNC1, C(cset_N,6,6,linter_none), none_, none_, none_, none_),
    AI(<<"3","2","2","1">>, NO_FNC1, C(cset_N,6,6,linter_none), none_, none_, none_, none_),
    AI(<<"3","2","2","2">>, NO_FNC1, C(cset_N,6,6,linter_none), none_, none_, none_, none_),
    AI(<<"3","2","2","3">>, NO_FNC1, C(cset_N,6,6,linter_none), none_, none_, none_, none_),
    AI(<<"3","2","2","4">>, NO_FNC1, C(cset_N,6,6,linter_none), none_, none_, none_, none_),
    AI(<<"3","2","2","5">>, NO_FNC1, C(cset_N,6,6,linter_none), none_, none_, none_, none_),
    AI(<<"3","2","3","0">>, NO_FNC1, C(cset_N,6,6,linter_none), none_, none_, none_, none_),
    AI(<<"3","2","3","1">>, NO_FNC1, C(cset_N,6,6,linter_none), none_, none_, none_, none_),
    AI(<<"3","2","3","2">>, NO_FNC1, C(cset_N,6,6,linter_none), none_, none_, none_, none_),
    AI(<<"3","2","3","3">>, NO_FNC1, C(cset_N,6,6,linter_none), none_, none_, none_, none_),
    AI(<<"3","2","3","4">>, NO_FNC1, C(cset_N,6,6,linter_none), none_, none_, none_, none_),
    AI(<<"3","2","3","5">>, NO_FNC1, C(cset_N,6,6,linter_none), none_, none_, none_, none_),
    AI(<<"3","2","4","0">>, NO_FNC1, C(cset_N,6,6,linter_none), none_, none_, none_, none_),
    AI(<<"3","2","4","1">>, NO_FNC1, C(cset_N,6,6,linter_none), none_, none_, none_, none_),
    AI(<<"3","2","4","2">>, NO_FNC1, C(cset_N,6,6,linter_none), none_, none_, none_, none_),
    AI(<<"3","2","4","3">>, NO_FNC1, C(cset_N,6,6,linter_none), none_, none_, none_, none_),
    AI(<<"3","2","4","4">>, NO_FNC1, C(cset_N,6,6,linter_none), none_, none_, none_, none_),
    AI(<<"3","2","4","5">>, NO_FNC1, C(cset_N,6,6,linter_none), none_, none_, none_, none_),
    AI(<<"3","2","5","0">>, NO_FNC1, C(cset_N,6,6,linter_none), none_, none_, none_, none_),
    AI(<<"3","2","5","1">>, NO_FNC1, C(cset_N,6,6,linter_none), none_, none_, none_, none_),
    AI(<<"3","2","5","2">>, NO_FNC1, C(cset_N,6,6,linter_none), none_, none_, none_, none_),
    AI(<<"3","2","5","3">>, NO_FNC1, C(cset_N,6,6,linter_none), none_, none_, none_, none_),
    AI(<<"3","2","5","4">>, NO_FNC1, C(cset_N,6,6,linter_none), none_, none_, none_, none_),
    AI(<<"3","2","5","5">>, NO_FNC1, C(cset_N,6,6,linter_none), none_, none_, none_, none_),
    AI(<<"3","2","6","0">>, NO_FNC1, C(cset_N,6,6,linter_none), none_, none_, none_, none_),
    AI(<<"3","2","6","1">>, NO_FNC1, C(cset_N,6,6,linter_none), none_, none_, none_, none_),
    AI(<<"3","2","6","2">>, NO_FNC1, C(cset_N,6,6,linter_none), none_, none_, none_, none_),
    AI(<<"3","2","6","3">>, NO_FNC1, C(cset_N,6,6,linter_none), none_, none_, none_, none_),
    AI(<<"3","2","6","4">>, NO_FNC1, C(cset_N,6,6,linter_none), none_, none_, none_, none_),
    AI(<<"3","2","6","5">>, NO_FNC1, C(cset_N,6,6,linter_none), none_, none_, none_, none_),
    AI(<<"3","2","7","0">>, NO_FNC1, C(cset_N,6,6,linter_none), none_, none_, none_, none_),
    AI(<<"3","2","7","1">>, NO_FNC1, C(cset_N,6,6,linter_none), none_, none_, none_, none_),
    AI(<<"3","2","7","2">>, NO_FNC1, C(cset_N,6,6,linter_none), none_, none_, none_, none_),
    AI(<<"3","2","7","3">>, NO_FNC1, C(cset_N,6,6,linter_none), none_, none_, none_, none_),
    AI(<<"3","2","7","4">>, NO_FNC1, C(cset_N,6,6,linter_none), none_, none_, none_, none_),
    AI(<<"3","2","7","5">>, NO_FNC1, C(cset_N,6,6,linter_none), none_, none_, none_, none_),
    AI(<<"3","2","8","0">>, NO_FNC1, C(cset_N,6,6,linter_none), none_, none_, none_, none_),
    AI(<<"3","2","8","1">>, NO_FNC1, C(cset_N,6,6,linter_none), none_, none_, none_, none_),
    AI(<<"3","2","8","2">>, NO_FNC1, C(cset_N,6,6,linter_none), none_, none_, none_, none_),
    AI(<<"3","2","8","3">>, NO_FNC1, C(cset_N,6,6,linter_none), none_, none_, none_, none_),
    AI(<<"3","2","8","4">>, NO_FNC1, C(cset_N,6,6,linter_none), none_, none_, none_, none_),
    AI(<<"3","2","8","5">>, NO_FNC1, C(cset_N,6,6,linter_none), none_, none_, none_, none_),
    AI(<<"3","2","9","0">>, NO_FNC1, C(cset_N,6,6,linter_none), none_, none_, none_, none_),
    AI(<<"3","2","9","1">>, NO_FNC1, C(cset_N,6,6,linter_none), none_, none_, none_, none_),
    AI(<<"3","2","9","2">>, NO_FNC1, C(cset_N,6,6,linter_none), none_, none_, none_, none_),
    AI(<<"3","2","9","3">>, NO_FNC1, C(cset_N,6,6,linter_none), none_, none_, none_, none_),
    AI(<<"3","2","9","4">>, NO_FNC1, C(cset_N,6,6,linter_none), none_, none_, none_, none_),
    AI(<<"3","2","9","5">>, NO_FNC1, C(cset_N,6,6,linter_none), none_, none_, none_, none_),
    AI(<<"3","3","0","0">>, NO_FNC1, C(cset_N,6,6,linter_none), none_, none_, none_, none_),
    AI(<<"3","3","0","1">>, NO_FNC1, C(cset_N,6,6,linter_none), none_, none_, none_, none_),
    AI(<<"3","3","0","2">>, NO_FNC1, C(cset_N,6,6,linter_none), none_, none_, none_, none_),
    AI(<<"3","3","0","3">>, NO_FNC1, C(cset_N,6,6,linter_none), none_, none_, none_, none_),
    AI(<<"3","3","0","4">>, NO_FNC1, C(cset_N,6,6,linter_none), none_, none_, none_, none_),
    AI(<<"3","3","0","5">>, NO_FNC1, C(cset_N,6,6,linter_none), none_, none_, none_, none_),
    AI(<<"3","3","1","0">>, NO_FNC1, C(cset_N,6,6,linter_none), none_, none_, none_, none_),
    AI(<<"3","3","1","1">>, NO_FNC1, C(cset_N,6,6,linter_none), none_, none_, none_, none_),
    AI(<<"3","3","1","2">>, NO_FNC1, C(cset_N,6,6,linter_none), none_, none_, none_, none_),
    AI(<<"3","3","1","3">>, NO_FNC1, C(cset_N,6,6,linter_none), none_, none_, none_, none_),
    AI(<<"3","3","1","4">>, NO_FNC1, C(cset_N,6,6,linter_none), none_, none_, none_, none_),
    AI(<<"3","3","1","5">>, NO_FNC1, C(cset_N,6,6,linter_none), none_, none_, none_, none_),
    AI(<<"3","3","2","0">>, NO_FNC1, C(cset_N,6,6,linter_none), none_, none_, none_, none_),
    AI(<<"3","3","2","1">>, NO_FNC1, C(cset_N,6,6,linter_none), none_, none_, none_, none_),
    AI(<<"3","3","2","2">>, NO_FNC1, C(cset_N,6,6,linter_none), none_, none_, none_, none_),
    AI(<<"3","3","2","3">>, NO_FNC1, C(cset_N,6,6,linter_none), none_, none_, none_, none_),
    AI(<<"3","3","2","4">>, NO_FNC1, C(cset_N,6,6,linter_none), none_, none_, none_, none_),
    AI(<<"3","3","2","5">>, NO_FNC1, C(cset_N,6,6,linter_none), none_, none_, none_, none_),
    AI(<<"3","3","3","0">>, NO_FNC1, C(cset_N,6,6,linter_none), none_, none_, none_, none_),
    AI(<<"3","3","3","1">>, NO_FNC1, C(cset_N,6,6,linter_none), none_, none_, none_, none_),
    AI(<<"3","3","3","2">>, NO_FNC1, C(cset_N,6,6,linter_none), none_, none_, none_, none_),
    AI(<<"3","3","3","3">>, NO_FNC1, C(cset_N,6,6,linter_none), none_, none_, none_, none_),
    AI(<<"3","3","3","4">>, NO_FNC1, C(cset_N,6,6,linter_none), none_, none_, none_, none_),
    AI(<<"3","3","3","5">>, NO_FNC1, C(cset_N,6,6,linter_none), none_, none_, none_, none_),
    AI(<<"3","3","4","0">>, NO_FNC1, C(cset_N,6,6,linter_none), none_, none_, none_, none_),
    AI(<<"3","3","4","1">>, NO_FNC1, C(cset_N,6,6,linter_none), none_, none_, none_, none_),
    AI(<<"3","3","4","2">>, NO_FNC1, C(cset_N,6,6,linter_none), none_, none_, none_, none_),
    AI(<<"3","3","4","3">>, NO_FNC1, C(cset_N,6,6,linter_none), none_, none_, none_, none_),
    AI(<<"3","3","4","4">>, NO_FNC1, C(cset_N,6,6,linter_none), none_, none_, none_, none_),
    AI(<<"3","3","4","5">>, NO_FNC1, C(cset_N,6,6,linter_none), none_, none_, none_, none_),
    AI(<<"3","3","5","0">>, NO_FNC1, C(cset_N,6,6,linter_none), none_, none_, none_, none_),
    AI(<<"3","3","5","1">>, NO_FNC1, C(cset_N,6,6,linter_none), none_, none_, none_, none_),
    AI(<<"3","3","5","2">>, NO_FNC1, C(cset_N,6,6,linter_none), none_, none_, none_, none_),
    AI(<<"3","3","5","3">>, NO_FNC1, C(cset_N,6,6,linter_none), none_, none_, none_, none_),
    AI(<<"3","3","5","4">>, NO_FNC1, C(cset_N,6,6,linter_none), none_, none_, none_, none_),
    AI(<<"3","3","5","5">>, NO_FNC1, C(cset_N,6,6,linter_none), none_, none_, none_, none_),
    AI(<<"3","3","6","0">>, NO_FNC1, C(cset_N,6,6,linter_none), none_, none_, none_, none_),
    AI(<<"3","3","6","1">>, NO_FNC1, C(cset_N,6,6,linter_none), none_, none_, none_, none_),
    AI(<<"3","3","6","2">>, NO_FNC1, C(cset_N,6,6,linter_none), none_, none_, none_, none_),
    AI(<<"3","3","6","3">>, NO_FNC1, C(cset_N,6,6,linter_none), none_, none_, none_, none_),
    AI(<<"3","3","6","4">>, NO_FNC1, C(cset_N,6,6,linter_none), none_, none_, none_, none_),
    AI(<<"3","3","6","5">>, NO_FNC1, C(cset_N,6,6,linter_none), none_, none_, none_, none_),
    AI(<<"3","3","7","0">>, NO_FNC1, C(cset_N,6,6,linter_none), none_, none_, none_, none_),
    AI(<<"3","3","7","1">>, NO_FNC1, C(cset_N,6,6,linter_none), none_, none_, none_, none_),
    AI(<<"3","3","7","2">>, NO_FNC1, C(cset_N,6,6,linter_none), none_, none_, none_, none_),
    AI(<<"3","3","7","3">>, NO_FNC1, C(cset_N,6,6,linter_none), none_, none_, none_, none_),
    AI(<<"3","3","7","4">>, NO_FNC1, C(cset_N,6,6,linter_none), none_, none_, none_, none_),
    AI(<<"3","3","7","5">>, NO_FNC1, C(cset_N,6,6,linter_none), none_, none_, none_, none_),
    AI(<<"3","4","0","0">>, NO_FNC1, C(cset_N,6,6,linter_none), none_, none_, none_, none_),
    AI(<<"3","4","0","1">>, NO_FNC1, C(cset_N,6,6,linter_none), none_, none_, none_, none_),
    AI(<<"3","4","0","2">>, NO_FNC1, C(cset_N,6,6,linter_none), none_, none_, none_, none_),
    AI(<<"3","4","0","3">>, NO_FNC1, C(cset_N,6,6,linter_none), none_, none_, none_, none_),
    AI(<<"3","4","0","4">>, NO_FNC1, C(cset_N,6,6,linter_none), none_, none_, none_, none_),
    AI(<<"3","4","0","5">>, NO_FNC1, C(cset_N,6,6,linter_none), none_, none_, none_, none_),
    AI(<<"3","4","1","0">>, NO_FNC1, C(cset_N,6,6,linter_none), none_, none_, none_, none_),
    AI(<<"3","4","1","1">>, NO_FNC1, C(cset_N,6,6,linter_none), none_, none_, none_, none_),
    AI(<<"3","4","1","2">>, NO_FNC1, C(cset_N,6,6,linter_none), none_, none_, none_, none_),
    AI(<<"3","4","1","3">>, NO_FNC1, C(cset_N,6,6,linter_none), none_, none_, none_, none_),
    AI(<<"3","4","1","4">>, NO_FNC1, C(cset_N,6,6,linter_none), none_, none_, none_, none_),
    AI(<<"3","4","1","5">>, NO_FNC1, C(cset_N,6,6,linter_none), none_, none_, none_, none_),
    AI(<<"3","4","2","0">>, NO_FNC1, C(cset_N,6,6,linter_none), none_, none_, none_, none_),
    AI(<<"3","4","2","1">>, NO_FNC1, C(cset_N,6,6,linter_none), none_, none_, none_, none_),
    AI(<<"3","4","2","2">>, NO_FNC1, C(cset_N,6,6,linter_none), none_, none_, none_, none_),
    AI(<<"3","4","2","3">>, NO_FNC1, C(cset_N,6,6,linter_none), none_, none_, none_, none_),
    AI(<<"3","4","2","4">>, NO_FNC1, C(cset_N,6,6,linter_none), none_, none_, none_, none_),
    AI(<<"3","4","2","5">>, NO_FNC1, C(cset_N,6,6,linter_none), none_, none_, none_, none_),
    AI(<<"3","4","3","0">>, NO_FNC1, C(cset_N,6,6,linter_none), none_, none_, none_, none_),
    AI(<<"3","4","3","1">>, NO_FNC1, C(cset_N,6,6,linter_none), none_, none_, none_, none_),
    AI(<<"3","4","3","2">>, NO_FNC1, C(cset_N,6,6,linter_none), none_, none_, none_, none_),
    AI(<<"3","4","3","3">>, NO_FNC1, C(cset_N,6,6,linter_none), none_, none_, none_, none_),
    AI(<<"3","4","3","4">>, NO_FNC1, C(cset_N,6,6,linter_none), none_, none_, none_, none_),
    AI(<<"3","4","3","5">>, NO_FNC1, C(cset_N,6,6,linter_none), none_, none_, none_, none_),
    AI(<<"3","4","4","0">>, NO_FNC1, C(cset_N,6,6,linter_none), none_, none_, none_, none_),
    AI(<<"3","4","4","1">>, NO_FNC1, C(cset_N,6,6,linter_none), none_, none_, none_, none_),
    AI(<<"3","4","4","2">>, NO_FNC1, C(cset_N,6,6,linter_none), none_, none_, none_, none_),
    AI(<<"3","4","4","3">>, NO_FNC1, C(cset_N,6,6,linter_none), none_, none_, none_, none_),
    AI(<<"3","4","4","4">>, NO_FNC1, C(cset_N,6,6,linter_none), none_, none_, none_, none_),
    AI(<<"3","4","4","5">>, NO_FNC1, C(cset_N,6,6,linter_none), none_, none_, none_, none_),
    AI(<<"3","4","5","0">>, NO_FNC1, C(cset_N,6,6,linter_none), none_, none_, none_, none_),
    AI(<<"3","4","5","1">>, NO_FNC1, C(cset_N,6,6,linter_none), none_, none_, none_, none_),
    AI(<<"3","4","5","2">>, NO_FNC1, C(cset_N,6,6,linter_none), none_, none_, none_, none_),
    AI(<<"3","4","5","3">>, NO_FNC1, C(cset_N,6,6,linter_none), none_, none_, none_, none_),
    AI(<<"3","4","5","4">>, NO_FNC1, C(cset_N,6,6,linter_none), none_, none_, none_, none_),
    AI(<<"3","4","5","5">>, NO_FNC1, C(cset_N,6,6,linter_none), none_, none_, none_, none_),
    AI(<<"3","4","6","0">>, NO_FNC1, C(cset_N,6,6,linter_none), none_, none_, none_, none_),
    AI(<<"3","4","6","1">>, NO_FNC1, C(cset_N,6,6,linter_none), none_, none_, none_, none_),
    AI(<<"3","4","6","2">>, NO_FNC1, C(cset_N,6,6,linter_none), none_, none_, none_, none_),
    AI(<<"3","4","6","3">>, NO_FNC1, C(cset_N,6,6,linter_none), none_, none_, none_, none_),
    AI(<<"3","4","6","4">>, NO_FNC1, C(cset_N,6,6,linter_none), none_, none_, none_, none_),
    AI(<<"3","4","6","5">>, NO_FNC1, C(cset_N,6,6,linter_none), none_, none_, none_, none_),
    AI(<<"3","4","7","0">>, NO_FNC1, C(cset_N,6,6,linter_none), none_, none_, none_, none_),
    AI(<<"3","4","7","1">>, NO_FNC1, C(cset_N,6,6,linter_none), none_, none_, none_, none_),
    AI(<<"3","4","7","2">>, NO_FNC1, C(cset_N,6,6,linter_none), none_, none_, none_, none_),
    AI(<<"3","4","7","3">>, NO_FNC1, C(cset_N,6,6,linter_none), none_, none_, none_, none_),
    AI(<<"3","4","7","4">>, NO_FNC1, C(cset_N,6,6,linter_none), none_, none_, none_, none_),
    AI(<<"3","4","7","5">>, NO_FNC1, C(cset_N,6,6,linter_none), none_, none_, none_, none_),
    AI(<<"3","4","8","0">>, NO_FNC1, C(cset_N,6,6,linter_none), none_, none_, none_, none_),
    AI(<<"3","4","8","1">>, NO_FNC1, C(cset_N,6,6,linter_none), none_, none_, none_, none_),
    AI(<<"3","4","8","2">>, NO_FNC1, C(cset_N,6,6,linter_none), none_, none_, none_, none_),
    AI(<<"3","4","8","3">>, NO_FNC1, C(cset_N,6,6,linter_none), none_, none_, none_, none_),
    AI(<<"3","4","8","4">>, NO_FNC1, C(cset_N,6,6,linter_none), none_, none_, none_, none_),
    AI(<<"3","4","8","5">>, NO_FNC1, C(cset_N,6,6,linter_none), none_, none_, none_, none_),
    AI(<<"3","4","9","0">>, NO_FNC1, C(cset_N,6,6,linter_none), none_, none_, none_, none_),
    AI(<<"3","4","9","1">>, NO_FNC1, C(cset_N,6,6,linter_none), none_, none_, none_, none_),
    AI(<<"3","4","9","2">>, NO_FNC1, C(cset_N,6,6,linter_none), none_, none_, none_, none_),
    AI(<<"3","4","9","3">>, NO_FNC1, C(cset_N,6,6,linter_none), none_, none_, none_, none_),
    AI(<<"3","4","9","4">>, NO_FNC1, C(cset_N,6,6,linter_none), none_, none_, none_, none_),
    AI(<<"3","4","9","5">>, NO_FNC1, C(cset_N,6,6,linter_none), none_, none_, none_, none_),
    AI(<<"3","5","0","0">>, NO_FNC1, C(cset_N,6,6,linter_none), none_, none_, none_, none_),
    AI(<<"3","5","0","1">>, NO_FNC1, C(cset_N,6,6,linter_none), none_, none_, none_, none_),
    AI(<<"3","5","0","2">>, NO_FNC1, C(cset_N,6,6,linter_none), none_, none_, none_, none_),
    AI(<<"3","5","0","3">>, NO_FNC1, C(cset_N,6,6,linter_none), none_, none_, none_, none_),
    AI(<<"3","5","0","4">>, NO_FNC1, C(cset_N,6,6,linter_none), none_, none_, none_, none_),
    AI(<<"3","5","0","5">>, NO_FNC1, C(cset_N,6,6,linter_none), none_, none_, none_, none_),
    AI(<<"3","5","1","0">>, NO_FNC1, C(cset_N,6,6,linter_none), none_, none_, none_, none_),
    AI(<<"3","5","1","1">>, NO_FNC1, C(cset_N,6,6,linter_none), none_, none_, none_, none_),
    AI(<<"3","5","1","2">>, NO_FNC1, C(cset_N,6,6,linter_none), none_, none_, none_, none_),
    AI(<<"3","5","1","3">>, NO_FNC1, C(cset_N,6,6,linter_none), none_, none_, none_, none_),
    AI(<<"3","5","1","4">>, NO_FNC1, C(cset_N,6,6,linter_none), none_, none_, none_, none_),
    AI(<<"3","5","1","5">>, NO_FNC1, C(cset_N,6,6,linter_none), none_, none_, none_, none_),
    AI(<<"3","5","2","0">>, NO_FNC1, C(cset_N,6,6,linter_none), none_, none_, none_, none_),
    AI(<<"3","5","2","1">>, NO_FNC1, C(cset_N,6,6,linter_none), none_, none_, none_, none_),
    AI(<<"3","5","2","2">>, NO_FNC1, C(cset_N,6,6,linter_none), none_, none_, none_, none_),
    AI(<<"3","5","2","3">>, NO_FNC1, C(cset_N,6,6,linter_none), none_, none_, none_, none_),
    AI(<<"3","5","2","4">>, NO_FNC1, C(cset_N,6,6,linter_none), none_, none_, none_, none_),
    AI(<<"3","5","2","5">>, NO_FNC1, C(cset_N,6,6,linter_none), none_, none_, none_, none_),
    AI(<<"3","5","3","0">>, NO_FNC1, C(cset_N,6,6,linter_none), none_, none_, none_, none_),
    AI(<<"3","5","3","1">>, NO_FNC1, C(cset_N,6,6,linter_none), none_, none_, none_, none_),
    AI(<<"3","5","3","2">>, NO_FNC1, C(cset_N,6,6,linter_none), none_, none_, none_, none_),
    AI(<<"3","5","3","3">>, NO_FNC1, C(cset_N,6,6,linter_none), none_, none_, none_, none_),
    AI(<<"3","5","3","4">>, NO_FNC1, C(cset_N,6,6,linter_none), none_, none_, none_, none_),
    AI(<<"3","5","3","5">>, NO_FNC1, C(cset_N,6,6,linter_none), none_, none_, none_, none_),
    AI(<<"3","5","4","0">>, NO_FNC1, C(cset_N,6,6,linter_none), none_, none_, none_, none_),
    AI(<<"3","5","4","1">>, NO_FNC1, C(cset_N,6,6,linter_none), none_, none_, none_, none_),
    AI(<<"3","5","4","2">>, NO_FNC1, C(cset_N,6,6,linter_none), none_, none_, none_, none_),
    AI(<<"3","5","4","3">>, NO_FNC1, C(cset_N,6,6,linter_none), none_, none_, none_, none_),
    AI(<<"3","5","4","4">>, NO_FNC1, C(cset_N,6,6,linter_none), none_, none_, none_, none_),
    AI(<<"3","5","4","5">>, NO_FNC1, C(cset_N,6,6,linter_none), none_, none_, none_, none_),
    AI(<<"3","5","5","0">>, NO_FNC1, C(cset_N,6,6,linter_none), none_, none_, none_, none_),
    AI(<<"3","5","5","1">>, NO_FNC1, C(cset_N,6,6,linter_none), none_, none_, none_, none_),
    AI(<<"3","5","5","2">>, NO_FNC1, C(cset_N,6,6,linter_none), none_, none_, none_, none_),
    AI(<<"3","5","5","3">>, NO_FNC1, C(cset_N,6,6,linter_none), none_, none_, none_, none_),
    AI(<<"3","5","5","4">>, NO_FNC1, C(cset_N,6,6,linter_none), none_, none_, none_, none_),
    AI(<<"3","5","5","5">>, NO_FNC1, C(cset_N,6,6,linter_none), none_, none_, none_, none_),
    AI(<<"3","5","6","0">>, NO_FNC1, C(cset_N,6,6,linter_none), none_, none_, none_, none_),
    AI(<<"3","5","6","1">>, NO_FNC1, C(cset_N,6,6,linter_none), none_, none_, none_, none_),
    AI(<<"3","5","6","2">>, NO_FNC1, C(cset_N,6,6,linter_none), none_, none_, none_, none_),
    AI(<<"3","5","6","3">>, NO_FNC1, C(cset_N,6,6,linter_none), none_, none_, none_, none_),
    AI(<<"3","5","6","4">>, NO_FNC1, C(cset_N,6,6,linter_none), none_, none_, none_, none_),
    AI(<<"3","5","6","5">>, NO_FNC1, C(cset_N,6,6,linter_none), none_, none_, none_, none_),
    AI(<<"3","5","7","0">>, NO_FNC1, C(cset_N,6,6,linter_none), none_, none_, none_, none_),
    AI(<<"3","5","7","1">>, NO_FNC1, C(cset_N,6,6,linter_none), none_, none_, none_, none_),
    AI(<<"3","5","7","2">>, NO_FNC1, C(cset_N,6,6,linter_none), none_, none_, none_, none_),
    AI(<<"3","5","7","3">>, NO_FNC1, C(cset_N,6,6,linter_none), none_, none_, none_, none_),
    AI(<<"3","5","7","4">>, NO_FNC1, C(cset_N,6,6,linter_none), none_, none_, none_, none_),
    AI(<<"3","5","7","5">>, NO_FNC1, C(cset_N,6,6,linter_none), none_, none_, none_, none_),
    AI(<<"3","6","0","0">>, NO_FNC1, C(cset_N,6,6,linter_none), none_, none_, none_, none_),
    AI(<<"3","6","0","1">>, NO_FNC1, C(cset_N,6,6,linter_none), none_, none_, none_, none_),
    AI(<<"3","6","0","2">>, NO_FNC1, C(cset_N,6,6,linter_none), none_, none_, none_, none_),
    AI(<<"3","6","0","3">>, NO_FNC1, C(cset_N,6,6,linter_none), none_, none_, none_, none_),
    AI(<<"3","6","0","4">>, NO_FNC1, C(cset_N,6,6,linter_none), none_, none_, none_, none_),
    AI(<<"3","6","0","5">>, NO_FNC1, C(cset_N,6,6,linter_none), none_, none_, none_, none_),
    AI(<<"3","6","1","0">>, NO_FNC1, C(cset_N,6,6,linter_none), none_, none_, none_, none_),
    AI(<<"3","6","1","1">>, NO_FNC1, C(cset_N,6,6,linter_none), none_, none_, none_, none_),
    AI(<<"3","6","1","2">>, NO_FNC1, C(cset_N,6,6,linter_none), none_, none_, none_, none_),
    AI(<<"3","6","1","3">>, NO_FNC1, C(cset_N,6,6,linter_none), none_, none_, none_, none_),
    AI(<<"3","6","1","4">>, NO_FNC1, C(cset_N,6,6,linter_none), none_, none_, none_, none_),
    AI(<<"3","6","1","5">>, NO_FNC1, C(cset_N,6,6,linter_none), none_, none_, none_, none_),
    AI(<<"3","6","2","0">>, NO_FNC1, C(cset_N,6,6,linter_none), none_, none_, none_, none_),
    AI(<<"3","6","2","1">>, NO_FNC1, C(cset_N,6,6,linter_none), none_, none_, none_, none_),
    AI(<<"3","6","2","2">>, NO_FNC1, C(cset_N,6,6,linter_none), none_, none_, none_, none_),
    AI(<<"3","6","2","3">>, NO_FNC1, C(cset_N,6,6,linter_none), none_, none_, none_, none_),
    AI(<<"3","6","2","4">>, NO_FNC1, C(cset_N,6,6,linter_none), none_, none_, none_, none_),
    AI(<<"3","6","2","5">>, NO_FNC1, C(cset_N,6,6,linter_none), none_, none_, none_, none_),
    AI(<<"3","6","3","0">>, NO_FNC1, C(cset_N,6,6,linter_none), none_, none_, none_, none_),
    AI(<<"3","6","3","1">>, NO_FNC1, C(cset_N,6,6,linter_none), none_, none_, none_, none_),
    AI(<<"3","6","3","2">>, NO_FNC1, C(cset_N,6,6,linter_none), none_, none_, none_, none_),
    AI(<<"3","6","3","3">>, NO_FNC1, C(cset_N,6,6,linter_none), none_, none_, none_, none_),
    AI(<<"3","6","3","4">>, NO_FNC1, C(cset_N,6,6,linter_none), none_, none_, none_, none_),
    AI(<<"3","6","3","5">>, NO_FNC1, C(cset_N,6,6,linter_none), none_, none_, none_, none_),
    AI(<<"3","6","4","0">>, NO_FNC1, C(cset_N,6,6,linter_none), none_, none_, none_, none_),
    AI(<<"3","6","4","1">>, NO_FNC1, C(cset_N,6,6,linter_none), none_, none_, none_, none_),
    AI(<<"3","6","4","2">>, NO_FNC1, C(cset_N,6,6,linter_none), none_, none_, none_, none_),
    AI(<<"3","6","4","3">>, NO_FNC1, C(cset_N,6,6,linter_none), none_, none_, none_, none_),
    AI(<<"3","6","4","4">>, NO_FNC1, C(cset_N,6,6,linter_none), none_, none_, none_, none_),
    AI(<<"3","6","4","5">>, NO_FNC1, C(cset_N,6,6,linter_none), none_, none_, none_, none_),
    AI(<<"3","6","5","0">>, NO_FNC1, C(cset_N,6,6,linter_none), none_, none_, none_, none_),
    AI(<<"3","6","5","1">>, NO_FNC1, C(cset_N,6,6,linter_none), none_, none_, none_, none_),
    AI(<<"3","6","5","2">>, NO_FNC1, C(cset_N,6,6,linter_none), none_, none_, none_, none_),
    AI(<<"3","6","5","3">>, NO_FNC1, C(cset_N,6,6,linter_none), none_, none_, none_, none_),
    AI(<<"3","6","5","4">>, NO_FNC1, C(cset_N,6,6,linter_none), none_, none_, none_, none_),
    AI(<<"3","6","5","5">>, NO_FNC1, C(cset_N,6,6,linter_none), none_, none_, none_, none_),
    AI(<<"3","6","6","0">>, NO_FNC1, C(cset_N,6,6,linter_none), none_, none_, none_, none_),
    AI(<<"3","6","6","1">>, NO_FNC1, C(cset_N,6,6,linter_none), none_, none_, none_, none_),
    AI(<<"3","6","6","2">>, NO_FNC1, C(cset_N,6,6,linter_none), none_, none_, none_, none_),
    AI(<<"3","6","6","3">>, NO_FNC1, C(cset_N,6,6,linter_none), none_, none_, none_, none_),
    AI(<<"3","6","6","4">>, NO_FNC1, C(cset_N,6,6,linter_none), none_, none_, none_, none_),
    AI(<<"3","6","6","5">>, NO_FNC1, C(cset_N,6,6,linter_none), none_, none_, none_, none_),
    AI(<<"3","6","7","0">>, NO_FNC1, C(cset_N,6,6,linter_none), none_, none_, none_, none_),
    AI(<<"3","6","7","1">>, NO_FNC1, C(cset_N,6,6,linter_none), none_, none_, none_, none_),
    AI(<<"3","6","7","2">>, NO_FNC1, C(cset_N,6,6,linter_none), none_, none_, none_, none_),
    AI(<<"3","6","7","3">>, NO_FNC1, C(cset_N,6,6,linter_none), none_, none_, none_, none_),
    AI(<<"3","6","7","4">>, NO_FNC1, C(cset_N,6,6,linter_none), none_, none_, none_, none_),
    AI(<<"3","6","7","5">>, NO_FNC1, C(cset_N,6,6,linter_none), none_, none_, none_, none_),
    AI(<<"3","6","8","0">>, NO_FNC1, C(cset_N,6,6,linter_none), none_, none_, none_, none_),
    AI(<<"3","6","8","1">>, NO_FNC1, C(cset_N,6,6,linter_none), none_, none_, none_, none_),
    AI(<<"3","6","8","2">>, NO_FNC1, C(cset_N,6,6,linter_none), none_, none_, none_, none_),
    AI(<<"3","6","8","3">>, NO_FNC1, C(cset_N,6,6,linter_none), none_, none_, none_, none_),
    AI(<<"3","6","8","4">>, NO_FNC1, C(cset_N,6,6,linter_none), none_, none_, none_, none_),
    AI(<<"3","6","8","5">>, NO_FNC1, C(cset_N,6,6,linter_none), none_, none_, none_, none_),
    AI(<<"3","6","9","0">>, NO_FNC1, C(cset_N,6,6,linter_none), none_, none_, none_, none_),
    AI(<<"3","6","9","1">>, NO_FNC1, C(cset_N,6,6,linter_none), none_, none_, none_, none_),
    AI(<<"3","6","9","2">>, NO_FNC1, C(cset_N,6,6,linter_none), none_, none_, none_, none_),
    AI(<<"3","6","9","3">>, NO_FNC1, C(cset_N,6,6,linter_none), none_, none_, none_, none_),
    AI(<<"3","6","9","4">>, NO_FNC1, C(cset_N,6,6,linter_none), none_, none_, none_, none_),
    AI(<<"3","6","9","5">>, NO_FNC1, C(cset_N,6,6,linter_none), none_, none_, none_, none_),
    AI(<<"3","7">>, FNC1, C(cset_N,1,8,linter_none), none_, none_, none_, none_),
    AI(<<"3","9","0","0">>, FNC1, C(cset_N,1,15,linter_none), none_, none_, none_, none_),
    AI(<<"3","9","0","1">>, FNC1, C(cset_N,1,15,linter_none), none_, none_, none_, none_),
    AI(<<"3","9","0","2">>, FNC1, C(cset_N,1,15,linter_none), none_, none_, none_, none_),
    AI(<<"3","9","0","3">>, FNC1, C(cset_N,1,15,linter_none), none_, none_, none_, none_),
    AI(<<"3","9","0","4">>, FNC1, C(cset_N,1,15,linter_none), none_, none_, none_, none_),
    AI(<<"3","9","0","5">>, FNC1, C(cset_N,1,15,linter_none), none_, none_, none_, none_),
    AI(<<"3","9","0","6">>, FNC1, C(cset_N,1,15,linter_none), none_, none_, none_, none_),
    AI(<<"3","9","0","7">>, FNC1, C(cset_N,1,15,linter_none), none_, none_, none_, none_),
    AI(<<"3","9","0","8">>, FNC1, C(cset_N,1,15,linter_none), none_, none_, none_, none_),
    AI(<<"3","9","0","9">>, FNC1, C(cset_N,1,15,linter_none), none_, none_, none_, none_),
    AI(<<"3","9","1","0">>, FNC1, C(cset_N,3,3,linter_none), C(cset_N,1,15,linter_none), none_, none_, none_),
    AI(<<"3","9","1","1">>, FNC1, C(cset_N,3,3,linter_none), C(cset_N,1,15,linter_none), none_, none_, none_),
    AI(<<"3","9","1","2">>, FNC1, C(cset_N,3,3,linter_none), C(cset_N,1,15,linter_none), none_, none_, none_),
    AI(<<"3","9","1","3">>, FNC1, C(cset_N,3,3,linter_none), C(cset_N,1,15,linter_none), none_, none_, none_),
    AI(<<"3","9","1","4">>, FNC1, C(cset_N,3,3,linter_none), C(cset_N,1,15,linter_none), none_, none_, none_),
    AI(<<"3","9","1","5">>, FNC1, C(cset_N,3,3,linter_none), C(cset_N,1,15,linter_none), none_, none_, none_),
    AI(<<"3","9","1","6">>, FNC1, C(cset_N,3,3,linter_none), C(cset_N,1,15,linter_none), none_, none_, none_),
    AI(<<"3","9","1","7">>, FNC1, C(cset_N,3,3,linter_none), C(cset_N,1,15,linter_none), none_, none_, none_),
    AI(<<"3","9","1","8">>, FNC1, C(cset_N,3,3,linter_none), C(cset_N,1,15,linter_none), none_, none_, none_),
    AI(<<"3","9","1","9">>, FNC1, C(cset_N,3,3,linter_none), C(cset_N,1,15,linter_none), none_, none_, none_),
    AI(<<"3","9","2","0">>, FNC1, C(cset_N,1,15,linter_none), none_, none_, none_, none_),
    AI(<<"3","9","2","1">>, FNC1, C(cset_N,1,15,linter_none), none_, none_, none_, none_),
    AI(<<"3","9","2","2">>, FNC1, C(cset_N,1,15,linter_none), none_, none_, none_, none_),
    AI(<<"3","9","2","3">>, FNC1, C(cset_N,1,15,linter_none), none_, none_, none_, none_),
    AI(<<"3","9","2","4">>, FNC1, C(cset_N,1,15,linter_none), none_, none_, none_, none_),
    AI(<<"3","9","2","5">>, FNC1, C(cset_N,1,15,linter_none), none_, none_, none_, none_),
    AI(<<"3","9","2","6">>, FNC1, C(cset_N,1,15,linter_none), none_, none_, none_, none_),
    AI(<<"3","9","2","7">>, FNC1, C(cset_N,1,15,linter_none), none_, none_, none_, none_),
    AI(<<"3","9","2","8">>, FNC1, C(cset_N,1,15,linter_none), none_, none_, none_, none_),
    AI(<<"3","9","2","9">>, FNC1, C(cset_N,1,15,linter_none), none_, none_, none_, none_),
    AI(<<"3","9","3","0">>, FNC1, C(cset_N,3,3,linter_none), C(cset_N,1,15,linter_none), none_, none_, none_),
    AI(<<"3","9","3","1">>, FNC1, C(cset_N,3,3,linter_none), C(cset_N,1,15,linter_none), none_, none_, none_),
    AI(<<"3","9","3","2">>, FNC1, C(cset_N,3,3,linter_none), C(cset_N,1,15,linter_none), none_, none_, none_),
    AI(<<"3","9","3","3">>, FNC1, C(cset_N,3,3,linter_none), C(cset_N,1,15,linter_none), none_, none_, none_),
    AI(<<"3","9","3","4">>, FNC1, C(cset_N,3,3,linter_none), C(cset_N,1,15,linter_none), none_, none_, none_),
    AI(<<"3","9","3","5">>, FNC1, C(cset_N,3,3,linter_none), C(cset_N,1,15,linter_none), none_, none_, none_),
    AI(<<"3","9","3","6">>, FNC1, C(cset_N,3,3,linter_none), C(cset_N,1,15,linter_none), none_, none_, none_),
    AI(<<"3","9","3","7">>, FNC1, C(cset_N,3,3,linter_none), C(cset_N,1,15,linter_none), none_, none_, none_),
    AI(<<"3","9","3","8">>, FNC1, C(cset_N,3,3,linter_none), C(cset_N,1,15,linter_none), none_, none_, none_),
    AI(<<"3","9","3","9">>, FNC1, C(cset_N,3,3,linter_none), C(cset_N,1,15,linter_none), none_, none_, none_),
    AI(<<"3","9","4","0">>, FNC1, C(cset_N,4,4,linter_none), none_, none_, none_, none_),
    AI(<<"3","9","4","1">>, FNC1, C(cset_N,4,4,linter_none), none_, none_, none_, none_),
    AI(<<"3","9","4","2">>, FNC1, C(cset_N,4,4,linter_none), none_, none_, none_, none_),
    AI(<<"3","9","4","3">>, FNC1, C(cset_N,4,4,linter_none), none_, none_, none_, none_),
    AI(<<"3","9","5","0">>, FNC1, C(cset_N,6,6,linter_none), none_, none_, none_, none_),
    AI(<<"3","9","5","1">>, FNC1, C(cset_N,6,6,linter_none), none_, none_, none_, none_),
    AI(<<"3","9","5","2">>, FNC1, C(cset_N,6,6,linter_none), none_, none_, none_, none_),
    AI(<<"3","9","5","3">>, FNC1, C(cset_N,6,6,linter_none), none_, none_, none_, none_),
    AI(<<"3","9","5","4">>, FNC1, C(cset_N,6,6,linter_none), none_, none_, none_, none_),
    AI(<<"3","9","5","5">>, FNC1, C(cset_N,6,6,linter_none), none_, none_, none_, none_),
    AI(<<"4","0","0">>, FNC1, C(cset_X,1,30,linter_none), none_, none_, none_, none_),
    AI(<<"4","0","1">>, FNC1, C(cset_X,1,30,linter_none), none_, none_, none_, none_),
    AI(<<"4","0","2">>, FNC1, C(cset_N,17,17,linter_csum), none_, none_, none_, none_),
    AI(<<"4","0","3">>, FNC1, C(cset_X,1,30,linter_none), none_, none_, none_, none_),
    AI(<<"4","1","0">>, NO_FNC1, C(cset_N,13,13,linter_csum), none_, none_, none_, none_),
    AI(<<"4","1","1">>, NO_FNC1, C(cset_N,13,13,linter_csum), none_, none_, none_, none_),
    AI(<<"4","1","2">>, NO_FNC1, C(cset_N,13,13,linter_csum), none_, none_, none_, none_),
    AI(<<"4","1","3">>, NO_FNC1, C(cset_N,13,13,linter_csum), none_, none_, none_, none_),
    AI(<<"4","1","4">>, NO_FNC1, C(cset_N,13,13,linter_csum), none_, none_, none_, none_),
    AI(<<"4","1","5">>, NO_FNC1, C(cset_N,13,13,linter_csum), none_, none_, none_, none_),
    AI(<<"4","1","6">>, NO_FNC1, C(cset_N,13,13,linter_csum), none_, none_, none_, none_),
    AI(<<"4","1","7">>, NO_FNC1, C(cset_N,13,13,linter_csum), none_, none_, none_, none_),
    AI(<<"4","2","0">>, FNC1, C(cset_X,1,20,linter_none), none_, none_, none_, none_),
    AI(<<"4","2","1">>, FNC1, C(cset_N,3,3,linter_none), C(cset_X,1,9,linter_none), none_, none_, none_),
    AI(<<"4","2","2">>, FNC1, C(cset_N,3,3,linter_none), none_, none_, none_, none_),
    AI(<<"4","2","3">>, FNC1, C(cset_N,3,15,linter_none), none_, none_, none_, none_),
    AI(<<"4","2","4">>, FNC1, C(cset_N,3,3,linter_none), none_, none_, none_, none_),
    AI(<<"4","2","5">>, FNC1, C(cset_N,3,15,linter_none), none_, none_, none_, none_),
    AI(<<"4","2","6">>, FNC1, C(cset_N,3,3,linter_none), none_, none_, none_, none_),
    AI(<<"4","2","7">>, FNC1, C(cset_X,1,3,linter_none), none_, none_, none_, none_),
    AI(<<"4","3","0","0">>, FNC1, C(cset_X,1,35,linter_none), none_, none_, none_, none_),
    AI(<<"4","3","0","1">>, FNC1, C(cset_X,1,35,linter_none), none_, none_, none_, none_),
    AI(<<"4","3","0","2">>, FNC1, C(cset_X,1,70,linter_none), none_, none_, none_, none_),
    AI(<<"4","3","0","3">>, FNC1, C(cset_X,1,70,linter_none), none_, none_, none_, none_),
    AI(<<"4","3","0","4">>, FNC1, C(cset_X,1,70,linter_none), none_, none_, none_, none_),
    AI(<<"4","3","0","5">>, FNC1, C(cset_X,1,70,linter_none), none_, none_, none_, none_),
    AI(<<"4","3","0","6">>, FNC1, C(cset_X,1,70,linter_none), none_, none_, none_, none_),
    AI(<<"4","3","0","7">>, FNC1, C(cset_X,2,2,linter_none), none_, none_, none_, none_),
    AI(<<"4","3","0","8">>, FNC1, C(cset_X,1,30,linter_none), none_, none_, none_, none_),
    AI(<<"4","3","1","0">>, FNC1, C(cset_X,1,35,linter_none), none_, none_, none_, none_),
    AI(<<"4","3","1","1">>, FNC1, C(cset_X,1,35,linter_none), none_, none_, none_, none_),
    AI(<<"4","3","1","2">>, FNC1, C(cset_X,1,70,linter_none), none_, none_, none_, none_),
    AI(<<"4","3","1","3">>, FNC1, C(cset_X,1,70,linter_none), none_, none_, none_, none_),
    AI(<<"4","3","1","4">>, FNC1, C(cset_X,1,70,linter_none), none_, none_, none_, none_),
    AI(<<"4","3","1","5">>, FNC1, C(cset_X,1,70,linter_none), none_, none_, none_, none_),
    AI(<<"4","3","1","6">>, FNC1, C(cset_X,1,70,linter_none), none_, none_, none_, none_),
    AI(<<"4","3","1","7">>, FNC1, C(cset_X,2,2,linter_none), none_, none_, none_, none_),
    AI(<<"4","3","1","8">>, FNC1, C(cset_X,1,20,linter_none), none_, none_, none_, none_),
    AI(<<"4","3","1","9">>, FNC1, C(cset_X,1,30,linter_none), none_, none_, none_, none_),
    AI(<<"4","3","2","0">>, FNC1, C(cset_X,1,35,linter_none), none_, none_, none_, none_),
    AI(<<"4","3","2","1">>, FNC1, C(cset_N,1,1,linter_none), none_, none_, none_, none_),
    AI(<<"4","3","2","2">>, FNC1, C(cset_N,1,1,linter_none), none_, none_, none_, none_),
    AI(<<"4","3","2","3">>, FNC1, C(cset_N,1,1,linter_none), none_, none_, none_, none_),
    AI(<<"4","3","2","4">>, FNC1, C(cset_N,6,6,linter_none), C(cset_N,4,4,linter_none), none_, none_, none_),
    AI(<<"4","3","2","5">>, FNC1, C(cset_N,6,6,linter_none), C(cset_N,4,4,linter_none), none_, none_, none_),
    AI(<<"4","3","2","6">>, FNC1, C(cset_N,6,6,linter_none), none_, none_, none_, none_),
    AI(<<"7","0","0","1">>, FNC1, C(cset_N,13,13,linter_none), none_, none_, none_, none_),
    AI(<<"7","0","0","2">>, FNC1, C(cset_X,1,30,linter_none), none_, none_, none_, none_),
    AI(<<"7","0","0","3">>, FNC1, C(cset_N,6,6,linter_none), C(cset_N,4,4,linter_none), none_, none_, none_),
    AI(<<"7","0","0","4">>, FNC1, C(cset_N,1,4,linter_none), none_, none_, none_, none_),
    AI(<<"7","0","0","5">>, FNC1, C(cset_X,1,12,linter_none), none_, none_, none_, none_),
    AI(<<"7","0","0","6">>, FNC1, C(cset_N,6,6,linter_none), none_, none_, none_, none_),
    AI(<<"7","0","0","7">>, FNC1, C(cset_N,6,6,linter_none), C(cset_N,0,6,linter_none), none_, none_, none_),
    AI(<<"7","0","0","8">>, FNC1, C(cset_X,1,3,linter_none), none_, none_, none_, none_),
    AI(<<"7","0","0","9">>, FNC1, C(cset_X,1,10,linter_none), none_, none_, none_, none_),
    AI(<<"7","0","1","0">>, FNC1, C(cset_X,1,2,linter_none), none_, none_, none_, none_),
    AI(<<"7","0","2","0">>, FNC1, C(cset_X,1,20,linter_none), none_, none_, none_, none_),
    AI(<<"7","0","2","1">>, FNC1, C(cset_X,1,20,linter_none), none_, none_, none_, none_),
    AI(<<"7","0","2","2">>, FNC1, C(cset_X,1,20,linter_none), none_, none_, none_, none_),
    AI(<<"7","0","2","3">>, FNC1, C(cset_X,1,30,linter_none), none_, none_, none_, none_),
    AI(<<"7","0","3","0">>, FNC1, C(cset_N,3,3,linter_none), C(cset_X,1,27,linter_none), none_, none_, none_),
    AI(<<"7","0","3","1">>, FNC1, C(cset_N,3,3,linter_none), C(cset_X,1,27,linter_none), none_, none_, none_),
    AI(<<"7","0","3","2">>, FNC1, C(cset_N,3,3,linter_none), C(cset_X,1,27,linter_none), none_, none_, none_),
    AI(<<"7","0","3","3">>, FNC1, C(cset_N,3,3,linter_none), C(cset_X,1,27,linter_none), none_, none_, none_),
    AI(<<"7","0","3","4">>, FNC1, C(cset_N,3,3,linter_none), C(cset_X,1,27,linter_none), none_, none_, none_),
    AI(<<"7","0","3","5">>, FNC1, C(cset_N,3,3,linter_none), C(cset_X,1,27,linter_none), none_, none_, none_),
    AI(<<"7","0","3","6">>, FNC1, C(cset_N,3,3,linter_none), C(cset_X,1,27,linter_none), none_, none_, none_),
    AI(<<"7","0","3","7">>, FNC1, C(cset_N,3,3,linter_none), C(cset_X,1,27,linter_none), none_, none_, none_),
    AI(<<"7","0","3","8">>, FNC1, C(cset_N,3,3,linter_none), C(cset_X,1,27,linter_none), none_, none_, none_),
    AI(<<"7","0","3","9">>, FNC1, C(cset_N,3,3,linter_none), C(cset_X,1,27,linter_none), none_, none_, none_),
    AI(<<"7","0","4","0">>, FNC1, C(cset_N,1,1,linter_none), C(cset_X,1,1,linter_none), C(cset_X,1,1,linter_none), C(cset_X,1,1,linter_none), none_),
    AI(<<"7","1","0">>, FNC1, C(cset_X,1,20,linter_none), none_, none_, none_, none_),
    AI(<<"7","1","1">>, FNC1, C(cset_X,1,20,linter_none), none_, none_, none_, none_),
    AI(<<"7","1","2">>, FNC1, C(cset_X,1,20,linter_none), none_, none_, none_, none_),
    AI(<<"7","1","3">>, FNC1, C(cset_X,1,20,linter_none), none_, none_, none_, none_),
    AI(<<"7","1","4">>, FNC1, C(cset_X,1,20,linter_none), none_, none_, none_, none_),
    AI(<<"7","2","3","0">>, FNC1, C(cset_X,2,2,linter_none), C(cset_X,1,28,linter_none), none_, none_, none_),
    AI(<<"7","2","3","1">>, FNC1, C(cset_X,2,2,linter_none), C(cset_X,1,28,linter_none), none_, none_, none_),
    AI(<<"7","2","3","2">>, FNC1, C(cset_X,2,2,linter_none), C(cset_X,1,28,linter_none), none_, none_, none_),
    AI(<<"7","2","3","3">>, FNC1, C(cset_X,2,2,linter_none), C(cset_X,1,28,linter_none), none_, none_, none_),
    AI(<<"7","2","3","4">>, FNC1, C(cset_X,2,2,linter_none), C(cset_X,1,28,linter_none), none_, none_, none_),
    AI(<<"7","2","3","5">>, FNC1, C(cset_X,2,2,linter_none), C(cset_X,1,28,linter_none), none_, none_, none_),
    AI(<<"7","2","3","6">>, FNC1, C(cset_X,2,2,linter_none), C(cset_X,1,28,linter_none), none_, none_, none_),
    AI(<<"7","2","3","7">>, FNC1, C(cset_X,2,2,linter_none), C(cset_X,1,28,linter_none), none_, none_, none_),
    AI(<<"7","2","3","8">>, FNC1, C(cset_X,2,2,linter_none), C(cset_X,1,28,linter_none), none_, none_, none_),
    AI(<<"7","2","3","9">>, FNC1, C(cset_X,2,2,linter_none), C(cset_X,1,28,linter_none), none_, none_, none_),
    AI(<<"7","2","4","0">>, FNC1, C(cset_X,1,20,linter_none), none_, none_, none_, none_),
    AI(<<"8","0","0","1">>, FNC1, C(cset_N,4,4,linter_none), C(cset_N,5,5,linter_none), C(cset_N,3,3,linter_none), C(cset_N,1,1,linter_none), C(cset_N,1,1,linter_none)),
    AI(<<"8","0","0","2">>, FNC1, C(cset_X,1,20,linter_none), none_, none_, none_, none_),
    AI(<<"8","0","0","3">>, FNC1, C(cset_N,1,1,linter_none), C(cset_N,13,13,linter_csum), C(cset_X,0,16,linter_none), none_, none_),
    AI(<<"8","0","0","4">>, FNC1, C(cset_X,1,30,linter_none), none_, none_, none_, none_),
    AI(<<"8","0","0","5">>, FNC1, C(cset_N,6,6,linter_none), none_, none_, none_, none_),
    AI(<<"8","0","0","6">>, FNC1, C(cset_N,14,14,linter_csum), C(cset_N,4,4,linter_none), none_, none_, none_),
    AI(<<"8","0","0","7">>, FNC1, C(cset_X,1,34,linter_none), none_, none_, none_, none_),
    AI(<<"8","0","0","8">>, FNC1, C(cset_N,8,8,linter_none), C(cset_N,0,4,linter_none), none_, none_, none_),
    AI(<<"8","0","0","9">>, FNC1, C(cset_X,1,50,linter_none), none_, none_, none_, none_),
    AI(<<"8","0","1","0">>, FNC1, C(cset_C,1,30,linter_none), none_, none_, none_, none_),
    AI(<<"8","0","1","1">>, FNC1, C(cset_N,1,12,linter_none), none_, none_, none_, none_),
    AI(<<"8","0","1","2">>, FNC1, C(cset_X,1,20,linter_none), none_, none_, none_, none_),
    AI(<<"8","0","1","3">>, FNC1, C(cset_X,1,25,linter_none), none_, none_, none_, none_),
    AI(<<"8","0","1","7">>, FNC1, C(cset_N,18,18,linter_csum), none_, none_, none_, none_),
    AI(<<"8","0","1","8">>, FNC1, C(cset_N,18,18,linter_csum), none_, none_, none_, none_),
    AI(<<"8","0","1","9">>, FNC1, C(cset_N,1,10,linter_none), none_, none_, none_, none_),
    AI(<<"8","0","2","0">>, FNC1, C(cset_X,1,25,linter_none), none_, none_, none_, none_),
    AI(<<"8","0","2","6">>, FNC1, C(cset_N,14,14,linter_csum), C(cset_N,4,4,linter_none), none_, none_, none_),
    AI(<<"8","1","1","0">>, FNC1, C(cset_X,1,70,linter_none), none_, none_, none_, none_),
    AI(<<"8","1","1","1">>, FNC1, C(cset_N,4,4,linter_none), none_, none_, none_, none_),
    AI(<<"8","1","1","2">>, FNC1, C(cset_X,1,70,linter_none), none_, none_, none_, none_),
    AI(<<"8","2","0","0">>, FNC1, C(cset_X,1,70,linter_none), none_, none_, none_, none_),
    AI(<<"9","0">>, FNC1, C(cset_X,1,30,linter_none), none_, none_, none_, none_),
    AI(<<"9","1">>, FNC1, C(cset_X,1,90,linter_none), none_, none_, none_, none_),
    AI(<<"9","2">>, FNC1, C(cset_X,1,90,linter_none), none_, none_, none_, none_),
    AI(<<"9","3">>, FNC1, C(cset_X,1,90,linter_none), none_, none_, none_, none_),
    AI(<<"9","4">>, FNC1, C(cset_X,1,90,linter_none), none_, none_, none_, none_),
    AI(<<"9","5">>, FNC1, C(cset_X,1,90,linter_none), none_, none_, none_, none_),
    AI(<<"9","6">>, FNC1, C(cset_X,1,90,linter_none), none_, none_, none_, none_),
    AI(<<"9","7">>, FNC1, C(cset_X,1,90,linter_none), none_, none_, none_, none_),
    AI(<<"9","8">>, FNC1, C(cset_X,1,90,linter_none), none_, none_, none_, none_),
    AI(<<"9","9">>, FNC1, C(cset_X,1,90,linter_none), none_, none_, none_, none_)
  >>

\* the number of components of an entry
NumParts == 5

\* the prefixes with "23", which is no longer defined as fixed length
fixedAIprefixes_with23 ==
  << <<"0","0">>, <<"0","1">>, <<"0","2">>,
     <<"0","3">>, <<"0","4">>,
     <<"1","1">>, <<"1","2">>, <<"1","3">>, <<"1","4">>, <<"1","5">>,
     <<"1","6">>, <<"1","7">>, <<"1","8">>, <<"1","9">>,
     <<"2","0">>,
     <<"2","3">>,
     <<"3","1">>, <<"3","2">>, <<"3","3">>, <<"3","4">>, <<"3","5">>, <<"3","6">>,
     <<"4","1">> >>

fixedAIprefixes ==
  << <<"0","0">>, <<"0","1">>, <<"0","2">>,
     <<"0","3">>, <<"0","4">>,
     <<"1","1">>, <<"1","2">>, <<"1","3">>, <<"1","4">>, <<"1","5">>,
     <<"1","6">>, <<"1","7">>, <<"1","8">>, <<"1","9">>,
     <<"2","0">>,
     <<"3","1">>, <<"3","2">>, <<"3","3">>, <<"3","4">>, <<"3","5">>, <<"3","6">>,
     <<"4","1">> >>

(***************************************************************************)
(* C string helpers                                                        *)
(***************************************************************************)
\* the string starting at pointer p of s
From(s, p) == SubSeq(s, p, Len(s))

\* strncmp(p, q, n) == 0 where q has at least n bytes
strncmpEq(p, q, n) == Len(p) >= n /\ \A k \in 1..n : p[k] = q[k]

NUL == "NUL"

Min(S) == CHOOSE i \in S : \A j \in S : i <= j

Max(S) == CHOOSE i \in S : \A j \in S : i >= j

\* pointer to the NUL that ends the C string starting at pointer p of buffer s
cend(s, p) ==
  LET Z == {i \in p..Len(s) : s[i] = NUL}
  IN IF Z = {} THEN Len(s) + 1 ELSE Min(Z)

\* the C string starting at pointer p of buffer s
cstr(s, p) == SubSeq(s, p, cend(s, p) - 1)

\* the byte at pointer p of buffer s
at(s, p) == IF p > Len(s) THEN NUL ELSE s[p]

\* strchr(s + p, c): pointer to the first c in the C string at p, 0 for NULL
strchr(s, p, c) ==
  LET H == {i \in p..(cend(s, p) - 1) : s[i] = c}
  IN IF H = {} THEN 0 ELSE Min(H)

\* strrchr(s + p, c): pointer to the last c in the C string at p, 0 for NULL
strrchr(s, p, c) ==
  LET H == {i \in p..(cend(s, p) - 1) : s[i] = c}
  IN IF H = {} THEN 0 ELSE Max(H)

Msg(fmt, arg) == <<fmt>> \o arg

Take(s, n) == SubSeq(s, 1, IF Len(s) < n THEN Len(s) ELSE n)

\* the element of a singleton: Only({e : x \in {v}}) is e with x standing
\* for the value v, which is then computed once
Only(S) == CHOOSE x \in S : TRUE

(***************************************************************************)
(* lookupAIentry: the entry of ai_table, NULL for none                     *)
(***************************************************************************)
NULL == [ai |-> <<>>, fnc1 |-> FALSE, parts |-> <<>>]

\* a walk that breaks at an entry that agrees with the buffer on the given
\* length, whatever the length of its AI
lookupAImatch_anyLength(entry, p, ailen) ==
  LET n == IF ailen > 0 THEN ailen ELSE Len(entry.ai)
  IN Len(entry.ai) >= n /\ Len(p) >= n /\ \A k \in 1..n : p[k] = entry.ai[k]

\* the condition under which the table walk breaks at the entry
lookupAImatch(entry, p, ailen) ==
  /\ ~(ailen # 0 /\ ailen # Len(entry.ai))
  /\ strncmpEq(p, entry.ai, IF ailen > 0 THEN ailen ELSE Len(entry.ai))

\* the walk over the table stops at the first matching entry
lookupAIwalk(table, p, ailen) ==
  LET hits == {i \in 1..Len(table) : lookupAImatch(table[i], p, ailen)}
  IN IF hits = {} THEN NULL ELSE table[Min(hits)]

lookupAIentry(p, ailen) == lookupAIwalk(ai_table, p, ailen)

(***************************************************************************)
(* The encoder context: the error state and the table of extracted AIs.    *)
(* aiData holds the numAIs entries in use; an entry is its ai_table entry, *)
(* the pointer to its value in the processed string and the value's        *)
(* length.                                                                 *)
(***************************************************************************)
setErr(ctx, msg) == [ctx EXCEPT !.errMsg = msg, !.errFlag = TRUE]

gs1_allDigits(str, len) ==
  LET n == IF len = 0 THEN Len(str) ELSE len
  IN \A i \in 1..n : str[i] \in Digits

\* gs1_validateParity that starts with weight 1 whatever the length
gs1_validateParity_weight1(str) ==
  LET n == Len(str)
      weight(k) == IF k % 2 = 1 THEN 1 ELSE 3
      Sum[k \in 0..(n - 1)] ==
        IF k = 0 THEN 0 ELSE Sum[k - 1] + weight(k) * DigitVal(str[k])
      parity == (10 - (Sum[n - 1] % 10)) % 10
  IN IF DigitChar(parity) = str[n]
       THEN [ok |-> TRUE, str |-> str]
       ELSE [ok |-> FALSE, str |-> [str EXCEPT ![n] = DigitChar(parity)]]

\* [ok, str]: the verdict and the string with the parity digit recalculated
gs1_validateParity(str) ==
  LET n == Len(str)
      w0 == IF n % 2 = 0 THEN 3 ELSE 1
      weight(k) == IF k % 2 = 1 THEN w0 ELSE 4 - w0
      Sum[k \in 0..(n - 1)] ==
        IF k = 0 THEN 0 ELSE Sum[k - 1] + weight(k) * DigitVal(str[k])
      parity == (10 - (Sum[n - 1] % 10)) % 10
  IN IF DigitChar(parity) = str[n]
       THEN [ok |-> TRUE, str |-> str]
       ELSE [ok |-> FALSE, str |-> [str EXCEPT ![n] = DigitChar(parity)]]

lint_cset82(ctx, entry, val) ==
  IF \E i \in 1..Len(val) : val[i] \notin cset82
    THEN [ok |-> FALSE, val |-> val,
          ctx |-> setErr(ctx, Msg("AI (%s): Incorrect CSET 82 character", entry.ai))]
    ELSE [ok |-> TRUE, val |-> val, ctx |-> ctx]

lint_csetNumeric(ctx, entry, val) ==
  IF ~gs1_allDigits(val, 0)
    THEN [ok |-> FALSE, val |-> val,
          ctx |-> setErr(ctx, Msg("AI (%s): Illegal non-digit character", entry.ai))]
    ELSE [ok |-> TRUE, val |-> val, ctx |-> ctx]

\* lint_csum that accepts every check digit
lint_csum_accepts(ctx, entry, val) ==
  [ok |-> TRUE, val |-> val, ctx |-> ctx]

lint_csum(ctx, entry, val) ==
  Only({ IF ~v.ok
           THEN [ok |-> FALSE, val |-> v.str,
                 ctx |-> setErr(ctx, Msg("AI (%s): Incorrect check digit", entry.ai))]
           ELSE [ok |-> TRUE, val |-> v.str, ctx |-> ctx]
         : v \in {gs1_validateParity(val)} })

\* the additional linters of a component, run in order until one fails
RECURSIVE runLinters(_, _, _, _, _)
runLinters(ctx, entry, linters, j, val) ==
  IF j > Len(linters) THEN [ok |-> TRUE, val |-> val, ctx |-> ctx]
  ELSE Only({ IF ~l.ok THEN l
              ELSE runLinters(l.ctx, entry, linters, j + 1, l.val)
              : l \in { IF linters[j] = linter_csum
                          THEN lint_csum(ctx, entry, val)
                          ELSE [ok |-> TRUE, val |-> val, ctx |-> ctx] } })

(***************************************************************************)
(* validate_ai_val: [n, ctx, str], n the amount of data consumed, 0 on     *)
(* failure, str the bytes of the caller as the call leaves them            *)
(***************************************************************************)
\* linters that are handed the bytes of the caller: what they write to the
\* component lands in the string at p
linted_inplace(s, p, compval) ==
  [k \in 1..Len(s) |-> IF k >= p /\ k < p + Len(compval) THEN compval[k - p + 1] ELSE s[k]]

\* the string at p after the linters have run on compval, the copy that
\* strncpy made of the component: the linters are handed the copy only
linted(s, p, compval) ==
  s

RECURSIVE validateParts(_, _, _, _, _, _)
validateParts(ctx, entry, s, start, p, i) ==
  IF i > NumParts \/ entry.parts[i].cset = cset_none
    THEN [n |-> p - start, ctx |-> ctx, str |-> s]
  ELSE
    LET part == entry.parts[i]
        r == Len(s) + 1
        complen == IF part.max < r - p THEN part.max ELSE r - p
        compval == SubSeq(s, p, p + complen - 1)
    IN IF complen < part.min
         THEN [n |-> 0, ctx |-> setErr(ctx, Msg("AI (%s) data is too short", entry.ai)),
               str |-> s]
       ELSE
         Only({ IF ~c.ok THEN [n |-> 0, ctx |-> c.ctx, str |-> linted(s, p, c.val)]
                ELSE Only({ IF ~l.ok
                              THEN [n |-> 0, ctx |-> l.ctx, str |-> linted(s, p, l.val)]
                            ELSE validateParts(l.ctx, entry, linted(s, p, l.val), start,
                                               p + complen, i + 1)
                            : l \in {runLinters(c.ctx, entry, part.linters, 1, c.val)} })
                : c \in { IF part.cset = cset_N
                            THEN lint_csetNumeric(ctx, entry, compval)
                            ELSE lint_cset82(ctx, entry, compval) } })

\* s holds the bytes up to the end pointer, start is the pointer to the value
validate_ai_val(ctx, entry, s, start) ==
  IF start = Len(s) + 1
    THEN [n |-> 0, ctx |-> setErr(ctx, Msg("AI (%s) data is empty", entry.ai)), str |-> s]
    ELSE validateParts(ctx, entry, s, start, start, 1)

(***************************************************************************)
(* gs1_processAIdata: [ret, ctx, dataStr], dataStr as the call leaves it   *)
(***************************************************************************)
\* missingFNC1 that reports nothing: the data of a variable-length AI may
\* then run beyond what the validator consumed
missingFNC1_never(entry, dataStr, p) ==
  FALSE

\* after an AI requiring FNC1, neither an FNC1 nor the end of the string
missingFNC1(entry, dataStr, p) ==
  entry.fnc1 /\ at(dataStr, p) # "#" /\ at(dataStr, p) # NUL

\* skipFNC1 that leaves an FNC1 where it is
skipFNC1_never(dataStr, p) ==
  p

\* skip FNC1, even at the end of fixed-length AIs
skipFNC1(dataStr, p) ==
  IF at(dataStr, p) = "#" THEN p + 1 ELSE p

\* a table of extracted AIs that always has room
aiDataFull_never(ctx) ==
  FALSE

\* no room left in the table of extracted AIs
aiDataFull(ctx) ==
  ~(ctx.numAIs < MAX_AIS)

\* validated records, for the observers, each AI whose value the component
\* validator accepted; it is not state of the program
\* one iteration of the loop over the AIs, from the AI at p: [exit, ret,
\* ctx, dataStr, p, validated], exit when the iteration returns false, p the
\* cursor for the next iteration otherwise
processAIiter(ctx, dataStr, p, validated) ==
  Only({
    IF entry = NULL
      THEN [exit |-> TRUE, ret |-> FALSE,
            ctx |-> setErr(ctx, Msg("Unrecognised AI: %.4s", Take(From(dataStr, p), 4))),
            dataStr |-> dataStr, p |-> p, validated |-> validated]
    ELSE
      LET p1 == p + Len(entry.ai)
          f == strchr(dataStr, p1, "#")
          r == IF f = 0 THEN Len(dataStr) + 1 ELSE f
      IN Only({
           LET vallen == v.n
               seen == Append(validated,
                              [aiEntry |-> entry, value |-> p1, vallen |-> vallen])
               ctx1 == [v.ctx EXCEPT
                          !.aiData = Append(@, [aiEntry |-> entry, value |-> p1,
                                                vallen |-> vallen % 256]),
                          !.numAIs = @ + 1]
               p2 == p1 + vallen
               left == v.str \o SubSeq(dataStr, r, Len(dataStr))
           IN IF vallen = 0
                THEN [exit |-> TRUE, ret |-> FALSE, ctx |-> v.ctx, dataStr |-> left,
                      p |-> p1, validated |-> validated]
              ELSE IF aiDataFull(v.ctx)
                THEN [exit |-> TRUE, ret |-> FALSE,
                      ctx |-> setErr(v.ctx, Msg("Too many AIs", <<>>)),
                      dataStr |-> left, p |-> p1, validated |-> seen]
              ELSE IF missingFNC1(entry, left, p2)
                THEN [exit |-> TRUE, ret |-> FALSE,
                      ctx |-> setErr(ctx1, Msg("AI (%s) data is too long", entry.ai)),
                      dataStr |-> left, p |-> p2, validated |-> seen]
              ELSE [exit |-> FALSE, ret |-> TRUE, ctx |-> ctx1, dataStr |-> left,
                    p |-> skipFNC1(left, p2), validated |-> seen]
           : v \in {validate_ai_val(ctx, entry, SubSeq(dataStr, 1, r - 1), p1)} })
    : entry \in {lookupAIentry(From(dataStr, p), 0)} })

\* while (*p)
RECURSIVE processAIloop(_, _, _, _)
processAIloop(ctx, dataStr, p, validated) ==
  IF p > Len(dataStr)
    THEN [ret |-> TRUE, ctx |-> ctx, dataStr |-> dataStr, validated |-> validated]
  ELSE Only({ IF it.exit
                THEN [ret |-> it.ret, ctx |-> it.ctx, dataStr |-> it.dataStr,
                      validated |-> it.validated]
              ELSE processAIloop(it.ctx, it.dataStr, it.p, it.validated)
              : it \in {processAIiter(ctx, dataStr, p, validated)} })

gs1_processAIdata(ctx, dataStr) ==
  LET ctx0 == [ctx EXCEPT !.errMsg = <<>>, !.errFlag = FALSE] IN
  IF Len(dataStr) = 0 \/ dataStr[1] # "#"
    THEN [ret |-> FALSE, ctx |-> setErr(ctx0, Msg("Missing FNC1 in first position", <<>>)),
          dataStr |-> dataStr, validated |-> <<>>]
  ELSE IF Len(dataStr) = 1
    THEN [ret |-> FALSE, ctx |-> setErr(ctx0, Msg("The AI data is empty", <<>>)),
          dataStr |-> dataStr, validated |-> <<>>]
  ELSE processAIloop(ctx0, dataStr, 2, <<>>)

(***************************************************************************)
(* Writing to dataStr with the overflow check: [ok, dataStr]               *)
(***************************************************************************)
writeDataStr(dataStr, v) ==
  IF Len(dataStr) + Len(v) > MAX_DATA
    THEN [ok |-> FALSE, dataStr |-> dataStr]
    ELSE [ok |-> TRUE, dataStr |-> dataStr \o v]

\* strncat copies at most l bytes of v and stops at a NUL byte
nwriteDataStr(dataStr, v, l) ==
  IF Len(dataStr) + l > MAX_DATA
    THEN [ok |-> FALSE, dataStr |-> dataStr]
    ELSE [ok |-> TRUE, dataStr |-> dataStr \o Take(cstr(v, 1), l)]

\* sum of the minima and of the maxima over all parts of the entry
RECURSIVE sumParts(_, _, _)
sumParts(entry, i, isMin) ==
  IF i > NumParts THEN 0
  ELSE (IF isMin THEN entry.parts[i].min ELSE entry.parts[i].max)
       + sumParts(entry, i + 1, isMin)

\* aiValLengthContentCheck without the test of the minimum length: a short
\* value of a fixed-length AI then absorbs the digits of the AI that follows
aiValLengthContentCheck_noMinimum(ctx, entry, aiVal, vallen) ==
  LET maxlen == sumParts(entry, 1, FALSE)
  IN IF vallen > maxlen
       THEN [ok |-> FALSE,
             ctx |-> [ctx EXCEPT !.errMsg = Msg("AI (%s) value is too long", entry.ai)]]
     ELSE IF \E k \in 1..vallen : aiVal[k] = "#"
       THEN [ok |-> FALSE,
             ctx |-> [ctx EXCEPT !.errMsg = Msg("AI (%s) contains illegal # character", entry.ai)]]
     ELSE [ok |-> TRUE, ctx |-> ctx]

\* aiValLengthContentCheck without the search for "#" in the value
aiValLengthContentCheck_noFNC1search(ctx, entry, aiVal, vallen) ==
  LET minlen == sumParts(entry, 1, TRUE)
      maxlen == sumParts(entry, 1, FALSE)
  IN IF vallen < minlen
       THEN [ok |-> FALSE,
             ctx |-> [ctx EXCEPT !.errMsg = Msg("AI (%s) value is too short", entry.ai)]]
     ELSE IF vallen > maxlen
       THEN [ok |-> FALSE,
             ctx |-> [ctx EXCEPT !.errMsg = Msg("AI (%s) value is too long", entry.ai)]]
     ELSE [ok |-> TRUE, ctx |-> ctx]

\* [ok, ctx]; only the message is written, the caller sets the flag
aiValLengthContentCheck(ctx, entry, aiVal, vallen) ==
  LET minlen == sumParts(entry, 1, TRUE)
      maxlen == sumParts(entry, 1, FALSE)
  IN IF vallen < minlen
       THEN [ok |-> FALSE,
             ctx |-> [ctx EXCEPT !.errMsg = Msg("AI (%s) value is too short", entry.ai)]]
     ELSE IF vallen > maxlen
       THEN [ok |-> FALSE,
             ctx |-> [ctx EXCEPT !.errMsg = Msg("AI (%s) value is too long", entry.ai)]]
     ELSE IF \E k \in 1..vallen : aiVal[k] = "#"
       THEN [ok |-> FALSE,
             ctx |-> [ctx EXCEPT !.errMsg = Msg("AI (%s) contains illegal # character", entry.ai)]]
     ELSE [ok |-> TRUE, ctx |-> ctx]

\* fnc1reqAfter that never asks for an FNC1: the values of variable-length
\* AIs then run into the AI that follows
fnc1reqAfter_never(entry) ==
  FALSE

\* fnc1reqAfter that always asks for an FNC1, after fixed-length AIs too
fnc1reqAfter_always(entry) ==
  TRUE

\* whether an FNC1 is required before the AI that follows entry
fnc1reqAfter(entry) ==
  ~\E i \in 1..Len(fixedAIprefixes) : strncmpEq(fixedAIprefixes[i], entry.ai, 2)

(***************************************************************************)
(* gs1_parseAIdata: [ret, ctx, dataStr]                                    *)
(***************************************************************************)
\* the fail label without the assignment to errFlag
parseAIfail_flagNotSet(ctx) ==
  [ret |-> FALSE,
   ctx |-> [ctx EXCEPT !.errMsg = IF @ = <<>> THEN Msg("Failed to parse AI data", <<>>) ELSE @],
   dataStr |-> <<>>,
   validated |-> <<>>]

parseAIfail(ctx) ==
  [ret |-> FALSE,
   ctx |-> [ctx EXCEPT !.errMsg = IF @ = <<>> THEN Msg("Failed to parse AI data", <<>>) ELSE @,
                       !.errFlag = TRUE],
   dataStr |-> <<>>,
   validated |-> <<>>]

\* no bracket taken for an escaped one
escapedBracket_never(aiData, p) == FALSE

\* the bracket found at p is an escaped data character
escapedBracket(aiData, p) == p <= Len(aiData) /\ aiData[p - 1] = "\\"

\* one pass from the label again, from r: [again, ok, dataStr, p, r], again
\* when the bracket found at p is an escaped one and the scan goes on from r
parseAIvalueIter(aiData, dataStr, r) ==
  LET f == strchr(aiData, r, "(")
      p == IF f = 0 THEN Len(aiData) + 1 ELSE f
  IN IF escapedBracket(aiData, p)
       THEN LET w1 == nwriteDataStr(dataStr, From(aiData, r), p - r - 1)
                w2 == writeDataStr(w1.dataStr, <<"(">>)
            IN IF ~w1.ok \/ ~w2.ok
                 THEN [again |-> FALSE, ok |-> FALSE, dataStr |-> dataStr, p |-> p, r |-> r]
                 ELSE [again |-> TRUE, ok |-> TRUE, dataStr |-> w2.dataStr, p |-> p,
                       r |-> p + 1]
       ELSE LET w == nwriteDataStr(dataStr, From(aiData, r), p - r)
            IN [again |-> FALSE, ok |-> w.ok, dataStr |-> w.dataStr, p |-> p, r |-> r]

\* the value scan from the label again: [ok, dataStr, p]
RECURSIVE parseAIvalue(_, _, _)
parseAIvalue(aiData, dataStr, r) ==
  Only({ IF it.again THEN parseAIvalue(aiData, it.dataStr, it.r)
         ELSE [ok |-> it.ok, dataStr |-> it.dataStr, p |-> it.p]
         : it \in {parseAIvalueIter(aiData, dataStr, r)} })

\* one iteration of the loop over the bracketed AIs, from the "(" at p:
\* [exit, ctx, dataStr, p, fnc1req], exit when the iteration goes to fail
parseAIiter(ctx, aiData, dataStr, p, fnc1req) ==
  LET failed(c) == [exit |-> TRUE, ctx |-> c, dataStr |-> dataStr, p |-> p,
                    fnc1req |-> fnc1req]
  IN
  IF aiData[p] # "(" THEN failed(ctx)
  ELSE
    LET p1 == p + 1
        rb == strchr(aiData, p1, ")")
        r == rb + 1
    IN IF rb = 0 THEN failed(ctx)
       ELSE
         Only({
           IF entry = NULL
             THEN failed([ctx EXCEPT !.errMsg =
                            Msg("Unrecognised AI: %.4s", Take(From(aiData, p1), 4))])
           ELSE
             LET w1 == IF fnc1req THEN writeDataStr(dataStr, <<"#">>)
                                  ELSE [ok |-> TRUE, dataStr |-> dataStr]
                 w2 == writeDataStr(w1.dataStr, entry.ai)
                 outval == Len(w2.dataStr) + 1
             IN IF ~w1.ok \/ ~w2.ok THEN failed(ctx)
                ELSE IF r > Len(aiData) THEN failed(ctx)
                ELSE
                  Only({
                    IF ~v.ok THEN failed(ctx)
                    ELSE
                      Only({ IF ~c.ok THEN failed(c.ctx)
                             ELSE [exit |-> FALSE, ctx |-> ctx, dataStr |-> v.dataStr,
                                   p |-> v.p, fnc1req |-> fnc1reqAfter(entry)]
                             : c \in {aiValLengthContentCheck(
                                        ctx, entry, From(v.dataStr, outval),
                                        Len(v.dataStr) - outval + 1)} })
                    : v \in {parseAIvalue(aiData, w2.dataStr, r)} })
           : entry \in {lookupAIentry(From(aiData, p1), rb - p1)} })

\* while (*p), then the validation of the data written
RECURSIVE parseAIloop(_, _, _, _, _)
parseAIloop(ctx, aiData, dataStr, p, fnc1req) ==
  IF p > Len(aiData)
    THEN Only({ [ret |-> res.ret, ctx |-> res.ctx, dataStr |-> res.dataStr,
                 validated |-> res.validated]
                : res \in {gs1_processAIdata(ctx, dataStr)} })
  ELSE Only({ IF it.exit THEN parseAIfail(it.ctx)
              ELSE parseAIloop(it.ctx, aiData, it.dataStr, it.p, it.fnc1req)
              : it \in {parseAIiter(ctx, aiData, dataStr, p, fnc1req)} })

gs1_parseAIdata(ctx, aiData) ==
  parseAIloop([ctx EXCEPT !.errMsg = <<>>, !.errFlag = FALSE], aiData, <<>>, 1, TRUE)

\* the byte with a given code: printable ASCII as itself, the rest by name
ByteChar ==
  <<
     NUL, "x01", "x02", "x03", "x04", "x05", "x06", "x07",
     "x08", "x09", "x0A", "x0B", "x0C", "x0D", "x0E", "x0F",
     "x10", "x11", "x12", "x13", "x14", "x15", "x16", "x17",
     "x18", "x19", "x1A", "x1B", "x1C", "x1D", "x1E", "x1F",
     " ", "!", "\"", "#", "$", "%", "&", "'",
     "(", ")", "*", "+", ",", "-", ".", "/",
     "0", "1", "2", "3", "4", "5", "6", "7",
     "8", "9", ":", ";", "<", "=", ">", "?",
     "@", "A", "B", "C", "D", "E", "F", "G",
     "H", "I", "J", "K", "L", "M", "N", "O",
     "P", "Q", "R", "S", "T", "U", "V", "W",
     "X", "Y", "Z", "[", "\\", "]", "^", "_",
     "x60", "a", "b", "c", "d", "e", "f", "g",
     "h", "i", "j", "k", "l", "m", "n", "o",
     "p", "q", "r", "s", "t", "u", "v", "w",
     "x", "y", "z", "{", "|", "}", "~", "x7F",
     "x80", "x81", "x82", "x83", "x84", "x85", "x86", "x87",
     "x88", "x89", "x8A", "x8B", "x8C", "x8D", "x8E", "x8F",
     "x90", "x91", "x92", "x93", "x94", "x95", "x96", "x97",
     "x98", "x99", "x9A", "x9B", "x9C", "x9D", "x9E", "x9F",
     "xA0", "xA1", "xA2", "xA3", "xA4", "xA5", "xA6", "xA7",
     "xA8", "xA9", "xAA", "xAB", "xAC", "xAD", "xAE", "xAF",
     "xB0", "xB1", "xB2", "xB3", "xB4", "xB5", "xB6", "xB7",
     "xB8", "xB9", "xBA", "xBB", "xBC", "xBD", "xBE", "xBF",
     "xC0", "xC1", "xC2", "xC3", "xC4", "xC5", "xC6", "xC7",
     "xC8", "xC9", "xCA", "xCB", "xCC", "xCD", "xCE", "xCF",
     "xD0", "xD1", "xD2", "xD3", "xD4", "xD5", "xD6", "xD7",
     "xD8", "xD9", "xDA", "xDB", "xDC", "xDD", "xDE", "xDF",
     "xE0", "xE1", "xE2", "xE3", "xE4", "xE5", "xE6", "xE7",
     "xE8", "xE9", "xEA", "xEB", "xEC", "xED", "xEE", "xEF",
     "xF0", "xF1", "xF2", "xF3", "xF4", "xF5", "xF6", "xF7",
     "xF8", "xF9", "xFA", "xFB", "xFC", "xFD", "xFE", "xFF"
  >>

uriCharacters ==
  Upper \cup Lower \cup Digits \cup
  {"-",".","_","~",":","/","?","#","[","]","@","!","$","&","'","(",")",
   "*","+",",",";","=","%"}

HexDigits ==
  Digits \cup {"a","b","c","d","e","f","A","B","C","D","E","F"}

HexVal(c) ==
  CASE c \in Digits -> DigitVal(c)
    [] c \in {"a","A"} -> 10 [] c \in {"b","B"} -> 11 [] c \in {"c","C"} -> 12
    [] c \in {"d","D"} -> 13 [] c \in {"e","E"} -> 14 [] c \in {"f","F"} -> 15

\* a - b in size_t arithmetic; a wrapped result exceeds every index, and is
\* represented by a value above every index of the model
size_sub(a, b) == IF a >= b THEN a - b ELSE 2147483647 - (b - a) + 1

(***************************************************************************)
(* URIunescape: [n, out]; in is the buffer holding the input from its      *)
(* first byte, inlen the number of bytes to decode                         *)
(***************************************************************************)
RECURSIVE URIunescapeLoop(_, _, _, _, _)
URIunescapeLoop(out, maxlen, in, inlen, i) ==
  IF ~(i < inlen /\ Len(out) < maxlen) THEN out
  ELSE IF /\ i < size_sub(inlen, 2)
          /\ at(in, i + 1) = "%"
          /\ at(in, i + 2) \in HexDigits
          /\ at(in, i + 3) \in HexDigits
         THEN URIunescapeLoop(
                Append(out, ByteChar[16 * HexVal(at(in, i + 2)) + HexVal(at(in, i + 3)) + 1]),
                maxlen, in, inlen, i + 3)
         ELSE URIunescapeLoop(Append(out, at(in, i + 1)), maxlen, in, inlen, i + 1)

URIunescape(maxlen, in, inlen) ==
  LET out == URIunescapeLoop(<<>>, maxlen, in, inlen, 0)
  IN [n |-> Len(out), out |-> out]

(***************************************************************************)
(* DL primary keys                                                         *)
(***************************************************************************)
dl_pkeys ==
  << <<"0","0">>, <<"0","1">>, <<"2","5","3">>, <<"2","5","5">>,
     <<"4","0","1">>, <<"4","0","2">>, <<"4","1","4">>, <<"4","1","7">>,
     <<"8","0","0","3">>, <<"8","0","0","4">>, <<"8","0","0","6">>,
     <<"8","0","1","0">>, <<"8","0","1","3">>, <<"8","0","1","7">>,
     <<"8","0","1","8">> >>

\* every AI taken for a DL primary key
isDLpkey_any(p) == TRUE

isDLpkey(p) == \E i \in 1..Len(dl_pkeys) : dl_pkeys[i] = p

(***************************************************************************)
(* gs1_parseDLuri: [ret, ctx, dataStr, dlData, dp], dlData the caller's   *)
(* buffer as it is left on return, dp the root of the DL path info        *)
(***************************************************************************)
\* the statements from the label out: the delimiters are restored
parseDLout(b, qp, fr) ==
  LET b1 == IF qp # 0 THEN [b EXCEPT ![qp - 1] = "?"] ELSE b
  IN IF fr # 0 THEN [b1 EXCEPT ![fr - 1] = "#"] ELSE b1

parseDLfail(ctx, b, qp, fr, decoded, dp) ==
  [ret |-> FALSE,
   dp |-> dp,
   decoded |-> decoded,
   validated |-> <<>>,
   ctx |-> [ctx EXCEPT !.errMsg = IF @ = <<>> THEN Msg("Failed to parse DL data", <<>>) ELSE @,
                       !.errFlag = TRUE],
   dataStr |-> <<>>,
   dlData |-> parseDLout(b, qp, fr)]

\* one iteration of the search backwards, with the last "/" of the path info
\* at r: [exit, b, dp, p], exit when the iteration breaks, dp = 0 for NULL
parseDLscanIter(b, pi, p) ==
  LET r == strrchr(b, pi, "/")
      p1 == strrchr([b EXCEPT ![p] = "/", ![r] = NUL], pi, "/")
      b3 == [b EXCEPT ![p] = "/"]
  IN IF p1 = 0 THEN [exit |-> TRUE, b |-> b3, dp |-> 0, p |-> p1]
     ELSE Only({ IF entry = NULL THEN [exit |-> TRUE, b |-> b3, dp |-> 0, p |-> p1]
                 ELSE IF isDLpkey(entry.ai)
                   THEN [exit |-> TRUE, b |-> b3, dp |-> p1, p |-> p1]
                 ELSE [exit |-> FALSE, b |-> [b3 EXCEPT ![p1] = NUL], dp |-> 0, p |-> p1]
                 : entry \in {lookupAIentry(cstr(b3, p1 + 1), r - p1 - 1)} })

\* the search backwards for the "/AI/value" pair of a DL primary key:
\* [b, dp], dp = 0 for NULL
RECURSIVE parseDLscan(_, _, _)
parseDLscan(b, pi, p) ==
  IF strrchr(b, pi, "/") = 0 THEN [b |-> b, dp |-> 0]
  ELSE Only({ IF it.exit THEN [b |-> it.b, dp |-> it.dp]
              ELSE parseDLscan(it.b, pi, it.p)
              : it \in {parseDLscanIter(b, pi, p)} })

\* no padding
padGTIN_none(entry, aival, vallen) == [aival |-> aival, vallen |-> vallen]

\* zeros appended after the value in place of zeros before it
padGTIN_zerosAfter(entry, aival, vallen) ==
  IF entry.ai = <<"0","1">> /\ (vallen = 13 \/ vallen = 12 \/ vallen = 8)
    THEN [aival |-> [k \in 1..14 |-> IF k <= vallen THEN aival[k] ELSE "0"],
          vallen |-> 14]
    ELSE [aival |-> aival, vallen |-> vallen]

\* special handling of AI (01) to pad up to a GTIN-14: [aival, vallen]
padGTIN(entry, aival, vallen) ==
  IF entry.ai = <<"0","1">> /\ (vallen = 13 \/ vallen = 12 \/ vallen = 8)
    THEN [aival |-> [k \in 1..14 |->
                       IF vallen >= (14 - k) + 1 THEN aival[vallen - (14 - k)] ELSE "0"],
          vallen |-> 14]
    ELSE [aival |-> aival, vallen |-> vallen]

\* unescape, pad and write one AI and its value: [ok, ctx, dataStr, fnc1req];
\* decoded records, for the observers, each AI with its value as decoded
\* and padded (aival, vallen) and the bytes written for it
parseDLemit(ctx, entry, dataStr, fnc1req, in, inlen, toolong, decoded) ==
  Only({
    IF u.n = 0
      THEN [ok |-> FALSE, ctx |-> [ctx EXCEPT !.errMsg = Msg(toolong, entry.ai)],
            dataStr |-> dataStr, fnc1req |-> fnc1req, decoded |-> decoded]
    ELSE
      Only({
        LET w1 == IF fnc1req THEN writeDataStr(dataStr, <<"#">>)
                             ELSE [ok |-> TRUE, dataStr |-> dataStr]
            w2 == writeDataStr(w1.dataStr, entry.ai)
        IN Only({
             IF ~w1.ok \/ ~w2.ok \/ ~w3.ok
               THEN [ok |-> FALSE, ctx |-> ctx, dataStr |-> dataStr, fnc1req |-> fnc1req,
                     decoded |-> decoded]
             ELSE
               Only({ [ok |-> c.ok, ctx |-> c.ctx, dataStr |-> w3.dataStr,
                       fnc1req |-> fnc1reqAfter(entry),
                       decoded |-> Append(decoded,
                                          [ai |-> entry.ai, aival |-> g.aival,
                                           vallen |-> g.vallen,
                                           written |-> From(w3.dataStr,
                                                            Len(w2.dataStr) + 1)])]
                      : c \in {aiValLengthContentCheck(ctx, entry, g.aival, g.vallen)} })
             : w3 \in {nwriteDataStr(w2.dataStr, g.aival, g.vallen)} })
        : g \in {padGTIN(entry, u.out, u.n)} })
    : u \in {URIunescape(MAX_AI_LEN, in, inlen)} })

\* one AI value pair of the DL path info, from the "/" at p: [exit, ok, ctx,
\* dataStr, p, fnc1req, decoded], exit when the iteration goes to fail
parseDLpathIter(ctx, b, dataStr, p, fnc1req, decoded) ==
  LET p1 == p + 1
      r == strchr(b, p1, "/") + 1
      f == strchr(b, r, "/")
      pn == IF f = 0 THEN cend(b, r) ELSE f
  IN Only({ [exit |-> ~m.ok, ok |-> m.ok, ctx |-> m.ctx, dataStr |-> m.dataStr,
             p |-> IF m.ok THEN pn ELSE p, fnc1req |-> m.fnc1req, decoded |-> m.decoded]
            : m \in {parseDLemit(ctx, lookupAIentry(cstr(b, p1), r - 1 - p1),
                                 dataStr, fnc1req, From(b, r), pn - r,
                                 "Decoded AI (%s) from DL path info too long",
                                 decoded)} })

\* each AI value pair of the DL path info: [ok, ctx, dataStr, fnc1req]
RECURSIVE parseDLpath(_, _, _, _, _, _)
parseDLpath(ctx, b, dataStr, p, fnc1req, decoded) ==
  IF at(b, p) = NUL
    THEN [ok |-> TRUE, ctx |-> ctx, dataStr |-> dataStr, fnc1req |-> fnc1req,
          decoded |-> decoded]
  ELSE Only({ IF it.exit
                THEN [ok |-> FALSE, ctx |-> it.ctx, dataStr |-> it.dataStr,
                      fnc1req |-> it.fnc1req, decoded |-> it.decoded]
              ELSE parseDLpath(it.ctx, b, it.dataStr, it.p, it.fnc1req, it.decoded)
              : it \in {parseDLpathIter(ctx, b, dataStr, p, fnc1req, decoded)} })

\* no key taken for numeric
numericKey_never(b, p, e) == FALSE

\* every key taken for numeric
numericKey_always(b, p, e) == TRUE

\* the key of the parameter at p, up to the "=" at e, is all digits
numericKey(b, p, e) == gs1_allDigits(cstr(b, p), e - p)

\* the query parameters left unread
parseDLquery_unread(ctx, b, dataStr, p, fnc1req, decoded) ==
  [ok |-> TRUE, ctx |-> ctx, dataStr |-> dataStr, fnc1req |-> fnc1req,
   decoded |-> decoded]

\* an iteration that goes on with the cursor where it is
parseDLqueryIter_stuck(ctx, b, dataStr, p, fnc1req, decoded) ==
  [exit |-> FALSE, ok |-> TRUE, ctx |-> ctx, dataStr |-> dataStr, p |-> p,
   fnc1req |-> fnc1req, decoded |-> decoded]

\* one iteration of the loop over the query parameters, from p: [exit, ok,
\* ctx, dataStr, p, fnc1req, decoded], exit when the iteration goes to fail
parseDLqueryIter(ctx, b, dataStr, p, fnc1req, decoded) ==
  LET p1 == Min({i \in p..(Len(b) + 1) : at(b, i) # "&"})
      f == strchr(b, p1, "&")
      r == IF f = 0 THEN cend(b, p1) ELSE f
      E == {i \in p1..(r - 1) : b[i] = "="}
      skipped == [exit |-> FALSE, ok |-> TRUE, ctx |-> ctx, dataStr |-> dataStr, p |-> r,
                  fnc1req |-> fnc1req, decoded |-> decoded]
  IN IF E = {} THEN skipped
     ELSE IF ~numericKey(b, p1, Min(E)) THEN skipped
     ELSE
       Only({
         IF entry = NULL
           THEN [exit |-> TRUE, ok |-> FALSE,
                 ctx |-> [ctx EXCEPT !.errMsg =
                            Msg("Unknown AI (%.*s) in query parameters",
                                SubSeq(b, p1, Min(E) - 1))],
                 dataStr |-> dataStr, p |-> p1, fnc1req |-> fnc1req, decoded |-> decoded]
         ELSE
           Only({ [exit |-> ~m.ok, ok |-> m.ok, ctx |-> m.ctx, dataStr |-> m.dataStr,
                   p |-> IF m.ok THEN r ELSE p1, fnc1req |-> m.fnc1req,
                   decoded |-> m.decoded]
                  : m \in {parseDLemit(ctx, entry, dataStr, fnc1req,
                                       From(b, Min(E) + 1), r - (Min(E) + 1),
                                       "Decoded AI (%s) value from DL query params too long",
                                       decoded)} })
         : entry \in {lookupAIentry(cstr(b, p1), Min(E) - p1)} })

\* the query parameters: [ok, ctx, dataStr, fnc1req]
RECURSIVE parseDLquery(_, _, _, _, _, _)
parseDLquery(ctx, b, dataStr, p, fnc1req, decoded) ==
  IF p = 0 \/ at(b, p) = NUL
    THEN [ok |-> TRUE, ctx |-> ctx, dataStr |-> dataStr, fnc1req |-> fnc1req,
          decoded |-> decoded]
  ELSE Only({ IF it.exit
                THEN [ok |-> FALSE, ctx |-> it.ctx, dataStr |-> it.dataStr,
                      fnc1req |-> it.fnc1req, decoded |-> it.decoded]
              ELSE parseDLquery(it.ctx, b, it.dataStr, it.p, it.fnc1req, it.decoded)
              : it \in {parseDLqueryIter(ctx, b, dataStr, p, fnc1req, decoded)} })

\* the statements before the search backwards: [msg, b, pi, qp], msg the
\* error message when they go to fail, "" otherwise, b the buffer with the
\* query parameter marker overwritten
parseDLhead(dlData) ==
  LET https == <<"h","t","t","p","s",":","/","/">>
      http == <<"h","t","t","p",":","/","/">>
      failed(m) == [msg |-> m, b |-> dlData, pi |-> 0, qp |-> 0]
  IN
  IF \E i \in 1..Len(dlData) : dlData[i] \notin uriCharacters
    THEN failed("URI contains illegal characters")
  ELSE IF ~(strncmpEq(dlData, https, 8) \/ strncmpEq(dlData, http, 7))
    THEN failed("Scheme must be http:// or https://")
  ELSE
    LET p0 == IF strncmpEq(dlData, https, 8) THEN 9 ELSE 8
        pi == strchr(dlData, p0, "/")
    IN IF pi = 0 \/ pi - p0 < 1
         THEN failed("URI must contain a domain and path info")
       ELSE
         LET q == strchr(dlData, pi, "?")
         IN [msg |-> "", b |-> IF q # 0 THEN [dlData EXCEPT ![q] = NUL] ELSE dlData,
             pi |-> pi, qp |-> IF q # 0 THEN q + 1 ELSE 0]

\* the fragment character delimits the end of the query parameters: [b, fr]
parseDLfragment(b, qp) ==
  LET h == IF qp # 0 THEN strchr(b, qp, "#") ELSE 0
  IN [b |-> IF h # 0 THEN [b EXCEPT ![h] = NUL] ELSE b,
      fr |-> IF h # 0 THEN h + 1 ELSE 0]

gs1_parseDLuri(ctx, dlData) ==
  LET ctx0 == [ctx EXCEPT !.errMsg = <<>>, !.errFlag = FALSE]
      withMsg(m) == [ctx0 EXCEPT !.errMsg = Msg(m, <<>>)]
      hd == parseDLhead(dlData)
      qp == hd.qp
  IN
  IF hd.msg # "" THEN parseDLfail(withMsg(hd.msg), dlData, 0, 0, <<>>, 0)
  ELSE
    Only({
      IF sc.dp = 0
        THEN parseDLfail(withMsg("No GS1 DL keys found in path info"),
                         sc.b, qp, 0, <<>>, 0)
      ELSE
        Only({
          IF ~pa.ok THEN parseDLfail(pa.ctx, sc.b, qp, 0, pa.decoded, sc.dp)
          ELSE
            Only({
              Only({
                IF ~qu.ok THEN parseDLfail(qu.ctx, fg.b, qp, fg.fr, qu.decoded, sc.dp)
                ELSE
                  Only({ [ret |-> res.ret, ctx |-> res.ctx,
                          dataStr |-> res.dataStr,
                          dlData |-> parseDLout(fg.b, qp, fg.fr),
                          decoded |-> qu.decoded,
                          dp |-> sc.dp,
                          validated |-> res.validated]
                         : res \in {gs1_processAIdata(qu.ctx, qu.dataStr)} })
                : qu \in {parseDLquery(pa.ctx, fg.b, pa.dataStr, qp, pa.fnc1req,
                                       pa.decoded)} })
              : fg \in {parseDLfragment(sc.b, qp)} })
          : pa \in {parseDLpath(ctx0, sc.b, <<>>, sc.dp, TRUE, <<>>)} })
      : sc \in {parseDLscan(hd.b, hd.pi, hd.pi)} })

(***************************************************************************)
(* Inputs: the strings made of at most MaxElems tokens                     *)
(***************************************************************************)
RECURSIVE TokenStrings(_, _)
TokenStrings(T, n) ==
  IF n = 0 THEN {<<>>}
  ELSE LET S == TokenStrings(T, n - 1)
       IN S \cup {s \o t : s \in S, t \in T}

\* bracketed AI data: AIs with and without a value, digits, an escaped bracket, a backslash, a "#"
AIdataTokens ==
  { <<"(","0","1",")","1","2","3","4","5","6","7","8","9","0","1","2","3","1">>,
    <<"(","0","1",")","1","2","3","4","5","6","7","8","9","0","1","2","3","4">>,
    <<"(","1","7",")","9">>,
    <<"9","1","2","2","5">>,
    <<"(","1","0",")">>,
    <<"2","1","7">>,
    <<"\\","(">>,
    <<"\\">>,
    <<"#">>,
    <<"(","2","5","3",")","1","2","3","1","2","3","1","2","3","1","2","3","2">> }

\* bracketed AI data that does not fit in the element string
AIdataLong ==
  { <<"(","9","1",")">> \o [k \in 1..(MAX_DATA - 2) |-> "b"],
    <<"(","9","1",")","b","(","9","2",")">> \o [k \in 1..(MAX_DATA - 6) |-> "b"],
    <<"(","9","1",")","b","(","9","2",")">> \o [k \in 1..(MAX_DATA - 7) |-> "b"] }

\* bracketed AI data with escaped brackets and backslashes within a value
AIdataEscaped ==
  { <<"(","1","0",")","a","\\","(","1","7",")","9","9","1","2","2","5">>,
    <<"(","1","0",")","a","\\","(">>,
    <<"(","1","0",")","a","\\","b">>,
    <<"(","1","0",")","a","\\","\\","(","b">>,
    <<"(","1","0",")","\\","(","(","1","7",")","9","9","1","2","2","5">>,
    <<"(","1","0",")","a","\\",")","\\","(","1","7",")","9","9","1","2","2","5">> }

AIdataInputs == TokenStrings(AIdataTokens, MaxElems) \cup AIdataLong \cup AIdataEscaped

\* element strings: FNC1, fixed-length AIs with a good and a bad check digit,
\* variable-length AIs within and beyond their length, digits, a character
\* outside CSET 82
DataStrTokens ==
  { <<"#">>,
    <<"0","1","1","2","3","4","5","6","7","8","9","0","1","2","3","1">>,
    <<"0","1","1","2","3","4","5","6","7","8","9","0","1","2","3","4">>,
    <<"1","7","9","9","1","2","2","5">>,
    <<"1","0","2","1","7">>,
    <<"2","1","7">>,
    <<"2","5","3","1","2","3","1","2","3","1","2","3","1","2","3","2">>,
    <<"4","2","2","1","2","3">>,
    <<"4","2","2","1","2","3","4">>,
    <<"~">> }

\* with and without FNC1 in first position
DataStrInputs ==
  LET T == TokenStrings(DataStrTokens, MaxElems)
  IN T \cup {<<"#">> \o t : t \in T}

\* DL URIs: path pairs, a stem segment, query parameters, a fragment, an escaped NUL
DLuriTokens ==
  { <<"/","0","1","/","1","2","3","4","5","6","7","8","9","0","1","2","3","1">>,
    <<"/","0","1","/","2","1","1","2","3","4","5","6","7","8","9","0","0">>,
    <<"/","1","0","/","a","%","2","D","b">>,
    <<"/","x">>,
    <<"?","1","7","=","9","9","1","2","2","5">>,
    <<"&","2","1","=","%","2","3">>,
    <<"&","9","9","9","=","f">>,
    <<"&","s">>,
    <<"#","f">>,
    <<"%","0","0">> }

\* DL URIs without a scheme, a domain or path info
DLuriMalformed ==
  { <<>>,
    <<"f","t","p",":","/","/","a","/","0","1","/","1","2","3","4","5","6","7","8","9","0","1","2","3","1">>,
    <<"h","t","t","p","s",":","/","/">>,
    <<"h","t","t","p","s",":","/","/","/","0","1","/","1","2","3","4","5","6","7","8","9","0","1","2","3","1">>,
    <<"h","t","t","p",":","/","/","a">>,
    <<"h","t","t","p",":","/","/","a","/">> }

https_a == <<"h","t","t","p","s",":","/","/","a">>

http_a == <<"h","t","t","p",":","/","/","a">>

\* DL URIs with a key in the path and in the query, with a key twice in
\* the query, with keys in descending order
DLuriRepeated ==
  { https_a \o <<"/","0","1","/","1","2","3","4","5","6","7","8","9","0","1","2","3","1",
                 "?","0","1","=","1","2","3","4","5","6","7","8","9","0","1","2","3","1">>,
    https_a \o <<"/","0","1","/","1","2","3","4","5","6","7","8","9","0","1","2","3","1",
                 "?","9","9","=","b","&","1","0","=","a","&","9","9","=","c">>,
    https_a \o <<"/","2","5","3","/","1","2","3","1","2","3","1","2","3","1","2","3","2",
                 "?","1","0","=","a">>,
    https_a \o <<"/","0","1","/","1","2","3","4","5","6","7","8","9","0","1","2","3","1",
                 "/","2","2","/","b","/","1","0","/","a">> }

\* DL URIs with GTINs of 8, 12 and 13 digits, in the path and in the query,
\* with escaped digits, and of other lengths
DLuriGTIN ==
  { https_a \o <<"/","0","1","/","0","2","3","4","5","6","8","0">>,
    https_a \o <<"/","0","1","/","4","1","6","0","0","0","3","3","6","1","0","8">>,
    https_a \o <<"/","0","1","/","%","3","0","%","3","2","3","4","5","6","8","0">>,
    https_a \o <<"/","0","1","/","0","2","3","4","5","6","8","0",
                 "?","0","1","=","2","1","1","2","2","3","3","7","8","9","6","5","7">>,
    https_a \o <<"/","0","1","/","4","1","6","0","0","0","3","3","6","1","0","8",
                 "?","0","1","=","%","3","0","2","3","4","5","6","8","0">>,
    https_a \o <<"/","0","1","/","1","2","3","4","5","6","7","8","9","0","1","2","3","1",
                 "?","0","1","=","1","2","3">>,
    https_a \o <<"/","0","1","/","1","2","3">>,
    https_a \o <<"/","0","1","/","1","2","3","4","5","6","7","8","9","0","1","2","3","1","5">>,
    https_a \o <<"/","0","1","/","1","2","3","4","5","6","7","8","9","0","1">>,
    https_a \o <<"/","0","1","/","0","2","3","4","5","6","8","9">> }

\* DL URIs with "&" in excess, singletons and keys that are not numeric
DLuriSkipped ==
  { https_a \o <<"/","1","0","/","b","?","&","&","&","1","0","=","a","&","&","&">>,
    https_a \o <<"/","1","0","/","b","/","0","1","/","0","2","3","4","5","6","8","0",
                 "?","s","i","n","g","l","e","t","o","n","&","1","0","=","a">>,
    https_a \o <<"/","0","1","/","0","2","3","4","5","6","8","0",
                 "?","1","0","=","a","&","s","i","n","g","l","e","t","o","n">>,
    https_a \o <<"/","0","1","/","0","2","3","4","5","6","8","0",
                 "?","u","n","k","n","o","w","n","=","6","6","6","&","1","0","=","a">>,
    https_a \o <<"/","0","1","/","0","2","3","4","5","6","8","0",
                 "?","1","0","=","a","&","1","a","=","6","6","6">>,
    https_a \o <<"/","0","1","/","0","2","3","4","5","6","8","0",
                 "?","=","5","&","1","0","=","a">>,
    https_a \o <<"/","0","1","/","0","2","3","4","5","6","8","0",
                 "?","s","&","9","9","=","b","&","t","=","1","&","1","0","=","a","&","&">>,
    https_a \o <<"/","0","1","/","0","2","3","4","5","6","8","0",
                 "?","a","=","1","&","&","1","7","=","9","#","f">>,
    https_a \o <<"/","0","1","/","0","2","3","4","5","6","8","0",
                 "?","a","=","1","#","1","0","=","a">> }

Repeated(c, n) == [k \in 1..n |-> c]

\* DL URIs with values that decode to MAX_AI_LEN bytes and to one more, in
\* the path and in the query, with an empty value, and with two values that
\* do not fit in the element string together
DLuriLong ==
  { https_a \o <<"/","4","0","1","/","1","?","9","1","=">> \o Repeated("b", MAX_AI_LEN + 1),
    https_a \o <<"/","4","0","1","/","1","/","9","1","/">> \o Repeated("b", MAX_AI_LEN + 1),
    https_a \o <<"/","4","0","1","/","1","?","9","1","=","%","6","2">> \o Repeated("b", MAX_AI_LEN),
    https_a \o <<"/","4","0","1","/","1","?","9","1","=">> \o Repeated("b", MAX_AI_LEN),
    https_a \o <<"/","4","0","1","/","1","?","1","0","=">> \o Repeated("b", MAX_AI_LEN + 1),
    https_a \o <<"/","4","0","1","/","1","?","9","1","=">> \o Repeated("b", MAX_AI_LEN + 1)
            \o <<"&","9","2","=">> \o Repeated("b", MAX_AI_LEN + 1),
    https_a \o <<"/","4","0","1","/","1","?","9","1","=">>,
    https_a \o <<"/","4","0","1","/","1","/","9","1","/">> }

DLuriInputs ==
  {https_a \o t : t \in TokenStrings(DLuriTokens, MaxElems)}
    \cup {http_a \o t : t \in TokenStrings(DLuriTokens, 1)}
    \cup DLuriMalformed
    \cup DLuriRepeated
    \cup DLuriGTIN
    \cup DLuriSkipped
    \cup DLuriLong

(***************************************************************************)
(* The state machine: calls of the three ingesters on one context          *)
(***************************************************************************)
\* the context after gs1_encoder_init
Init ==
  /\ encoder = [errMsg |-> <<>>, errFlag |-> FALSE, numAIs |-> 0, aiData |-> <<>>]
  /\ outStr = <<>>
  /\ uriBuf = <<>>
  /\ ret = TRUE
  /\ op = "init"
  /\ input = <<>>
  /\ old = encoder
  /\ calls = 0
  /\ validatedAIs = <<>>
  /\ decodedVals = <<>>
  /\ dlRoot = 0
  /\ args = <<>>
  /\ result = <<>>

ParseAIdata(aiData) ==
  \E res \in {gs1_parseAIdata(encoder, aiData)} :
    /\ encoder' = res.ctx
    /\ outStr' = res.dataStr
    /\ ret' = res.ret
    /\ op' = "parseAIdata"
    /\ input' = aiData
    /\ old' = encoder
    /\ calls' = calls + 1
    /\ validatedAIs' = res.validated
    /\ decodedVals' = <<>>
    /\ dlRoot' = 0
    /\ UNCHANGED <<uriBuf, args, result>>

ParseDLuri(dlData) ==
  \E res \in {gs1_parseDLuri(encoder, dlData)} :
    /\ encoder' = res.ctx
    /\ outStr' = res.dataStr
    /\ uriBuf' = res.dlData
    /\ ret' = res.ret
    /\ op' = "parseDLuri"
    /\ input' = dlData
    /\ old' = encoder
    /\ calls' = calls + 1
    /\ validatedAIs' = res.validated
    /\ decodedVals' = res.decoded
    /\ dlRoot' = res.dp
    /\ UNCHANGED <<args, result>>

ProcessAIdata(dataStr) ==
  \E res \in {gs1_processAIdata(encoder, dataStr)} :
    /\ encoder' = res.ctx
    /\ outStr' = res.dataStr
    /\ ret' = res.ret
    /\ op' = "processAIdata"
    /\ input' = dataStr
    /\ old' = encoder
    /\ calls' = calls + 1
    /\ validatedAIs' = res.validated
    /\ decodedVals' = <<>>
    /\ dlRoot' = 0
    /\ UNCHANGED <<uriBuf, args, result>>

Next ==
  \/ calls = 0 /\ \E s \in AIdataInputs : ParseAIdata(s)
  \/ calls = 0 /\ \E s \in DLuriInputs : ParseDLuri(s)
  \/ calls = 0 /\ \E s \in DataStrInputs : ProcessAIdata(s)

Spec == Init /\ [][Next]_vars

\* the caller empties the table of extracted AIs between calls
ResetAIs ==
  /\ encoder.numAIs > 0
  /\ encoder' = [encoder EXCEPT !.numAIs = 0, !.aiData = <<>>]
  /\ op' = "reset"
  /\ UNCHANGED <<outStr, uriBuf, ret, input, old, calls, validatedAIs, decodedVals, dlRoot,
               args, result>>

\* inputs of the sequences of calls
SeqAIdataInputs ==
  { <<"(","1","0",")","2","1","7">>,
    <<"(","0","1",")","1","2","3","4","5","6","7","8","9","0","1","2","3","1","(","1","0",")","2","1","7">>,
    <<"(","1","0",")","2","1","7","(","0","1",")","1","2","3","4","5","6","7","8","9","0","1","2","3","4">>,
    <<"(","1","7",")","9">> }

SeqDLuriInputs ==
  { <<"h","t","t","p","s",":","/","/","a","/","0","1","/","1","2","3","4","5","6","7","8","9","0","1","2","3","1">>,
    <<"h","t","t","p","s",":","/","/","a","/","0","1","/","2","1","1","2","3","4","5","6","7","8","9","0","0","?","1","0","=","2","1","7">>,
    <<"h","t","t","p","s",":","/","/","a","/","0","1","/","1","2","3","4","5","6","7","8","9","0","1","2","3","1","/","1","0","/","2","1","7","?","0","1","=","1","2","3","4","5","6","7","8","9","0","1","2","3","4">>,
    <<"h","t","t","p","s",":","/","/","a","/","1","0","/","2","1","7">> }

SeqDataStrInputs ==
  { <<"#","1","0","2","1","7">>,
    <<"#","0","1","1","2","3","4","5","6","7","8","9","0","1","2","3","1","#","1","0","2","1","7">>,
    <<"#","1","0","2","1","7","#","0","1","1","2","3","4","5","6","7","8","9","0","1","2","3","4">>,
    <<"#","1","0","2","1","7","0","1","1","2","3","4","5","6","7","8","9","0","1","2","3","1">>,
    <<"1","0","2","1","7">> }

\* sequences of at most MaxCalls calls on one context
NextSeq ==
  \/ calls < MaxCalls /\ \E s \in SeqAIdataInputs : ParseAIdata(s)
  \/ calls < MaxCalls /\ \E s \in SeqDLuriInputs : ParseDLuri(s)
  \/ calls < MaxCalls /\ \E s \in SeqDataStrInputs : ProcessAIdata(s)
  \/ ResetAIs

SpecSeq == Init /\ [][NextSeq]_vars

(***************************************************************************)
(* URIunescape on its own: the buffer in, the number inlen of its bytes to *)
(* decode, the capacity maxlen of out                                      *)
(***************************************************************************)
\* buffers of hex digits of either case, "%" and a character that is no
\* hex digit
UnescapeChars == {"%", "0", "a", "F", "g"}

RECURSIVE UnescapeBuffers(_)
UnescapeBuffers(n) ==
  IF n = 0 THEN {<<>>}
  ELSE UnescapeBuffers(n - 1)
         \cup {Append(b, c) : b \in {x \in UnescapeBuffers(n - 1) : Len(x) = n - 1},
                              c \in UnescapeChars}

UnescapeArgs ==
  {[in |-> b, inlen |-> n, maxlen |-> m] :
     b \in UnescapeBuffers(MaxInLen), n \in 0..MaxInLen, m \in {2, MAX_AI_LEN}}

InitURIunescape ==
  /\ encoder = [errMsg |-> <<>>, errFlag |-> FALSE, numAIs |-> 0, aiData |-> <<>>]
  /\ outStr = <<>>
  /\ uriBuf = <<>>
  /\ ret = TRUE
  /\ op = "init"
  /\ input = <<>>
  /\ old = encoder
  /\ calls = 0
  /\ validatedAIs = <<>>
  /\ decodedVals = <<>>
  /\ dlRoot = 0
  /\ args \in {a \in UnescapeArgs : a.inlen <= Len(a.in)}
  /\ result = <<>>

CallURIunescape ==
  /\ op = "init"
  /\ op' = "URIunescape"
  /\ result' = URIunescape(args.maxlen, args.in, args.inlen)
  /\ UNCHANGED <<encoder, outStr, uriBuf, ret, input, old, calls, validatedAIs,
                 decodedVals, dlRoot, args>>

NextURIunescape == CallURIunescape

SpecURIunescape == InitURIunescape /\ [][NextURIunescape]_vars

(***************************************************************************)
(* gs1_validateParity on its own: a buffer of digits, validated and then   *)
(* validated again as the first call left it                               *)
(***************************************************************************)
RECURSIVE DigitStrings(_)
DigitStrings(n) ==
  IF n = 0 THEN {<<>>}
  ELSE DigitStrings(n - 1)
         \cup {Append(b, c) : b \in {x \in DigitStrings(n - 1) : Len(x) = n - 1},
                              c \in Digits}

\* the GTINs of the unit test, with a good and with a bad check digit
ParityGTINs ==
  { <<"2","4","0","1","2","3","4","5","6","7","8","9","0","5">>,
    <<"2","4","0","1","2","3","4","5","6","7","8","9","0","9">>,
    <<"2","1","1","2","2","3","3","7","8","9","6","5","7">>,
    <<"2","1","1","2","2","3","3","7","8","9","6","5","8">>,
    <<"4","1","6","0","0","0","3","3","6","1","0","8">>,
    <<"4","1","6","0","0","0","3","3","6","1","0","7">>,
    <<"0","2","3","4","5","6","8","0">>,
    <<"0","2","3","4","5","6","8","9">> }

ParityInputs == (DigitStrings(MaxParityLen) \ {<<>>}) \cup ParityGTINs

InitValidateParity ==
  /\ encoder = [errMsg |-> <<>>, errFlag |-> FALSE, numAIs |-> 0, aiData |-> <<>>]
  /\ outStr = <<>>
  /\ uriBuf = <<>>
  /\ ret = TRUE
  /\ op = "init"
  /\ input = <<>>
  /\ old = encoder
  /\ calls = 0
  /\ validatedAIs = <<>>
  /\ decodedVals = <<>>
  /\ dlRoot = 0
  /\ args \in {[str |-> v] : v \in ParityInputs}
  /\ result = <<>>

CallValidateParity ==
  /\ op = "init"
  /\ op' = "validateParity"
  /\ result' = gs1_validateParity(args.str)
  /\ UNCHANGED <<encoder, outStr, uriBuf, ret, input, old, calls, validatedAIs,
                 decodedVals, dlRoot, args>>

\* the same buffer validated again: input keeps the buffer as it was given
\* to the first call
CallValidateParityAgain ==
  /\ op = "validateParity"
  /\ op' = "validateParityAgain"
  /\ input' = args.str
  /\ args' = [str |-> result.str]
  /\ result' = gs1_validateParity(result.str)
  /\ UNCHANGED <<encoder, outStr, uriBuf, ret, old, calls, validatedAIs,
                 decodedVals, dlRoot>>

NextValidateParity ==
  \/ CallValidateParity
  \/ CallValidateParityAgain

SpecValidateParity == InitValidateParity /\ [][NextValidateParity]_vars

(***************************************************************************)
(* Observers of the outcome of a call                                      *)
(***************************************************************************)
Called == op \in {"parseAIdata", "parseDLuri", "processAIdata"}

Parsed == op \in {"parseAIdata", "parseDLuri"}

\* the key of entry i of the table of extracted AIs
ExtractedAI(i) == encoder.aiData[i].aiEntry

\* the value of entry i, read in the element string it points into
ExtractedValue(i) ==
  SubSeq(outStr, encoder.aiData[i].value,
         encoder.aiData[i].value + encoder.aiData[i].vallen - 1)

\* the table of extracted AIs as keys and values
ExtractedAIs ==
  [i \in 1..encoder.numAIs |-> [ai |-> ExtractedAI(i).ai, value |-> ExtractedValue(i)]]

(***************************************************************************)
(* The bracketed syntax read on its own: (AI)value pairs, \( for a         *)
(* literal bracket in a value                                              *)
(***************************************************************************)
\* the value that starts at p, up to the next unescaped bracket: [value, next]
RECURSIVE DeclaredValue(_, _, _)
DeclaredValue(s, p, acc) ==
  IF p > Len(s) THEN [value |-> acc, next |-> p]
  ELSE IF s[p] = "\\" /\ p < Len(s) /\ s[p + 1] = "("
    THEN DeclaredValue(s, p + 2, Append(acc, "("))
  ELSE IF s[p] = "(" THEN [value |-> acc, next |-> p]
  ELSE DeclaredValue(s, p + 1, Append(acc, s[p]))

RECURSIVE DeclaredPairs(_, _, _)
DeclaredPairs(s, p, acc) ==
  IF p > Len(s) THEN [ok |-> TRUE, pairs |-> acc]
  ELSE IF s[p] # "(" THEN [ok |-> FALSE, pairs |-> acc]
  ELSE
    LET closing == {q \in (p + 1)..Len(s) : s[q] = ")"} IN
    IF closing = {} THEN [ok |-> FALSE, pairs |-> acc]
    ELSE
      LET q == CHOOSE c \in closing : \A d \in closing : c <= d
          v == DeclaredValue(s, q + 1, <<>>)
      IN DeclaredPairs(s, v.next,
                       Append(acc, [ai |-> SubSeq(s, p + 1, q - 1), value |-> v.value]))

\* the pairs a bracketed string declares: [ok, pairs]
Declared(s) == DeclaredPairs(s, 1, <<>>)

\* the two-digit prefixes of the AIs after which no FNC1 is emitted
FixedPrefixSet ==
  { <<"0","0">>, <<"0","1">>, <<"0","2">>, <<"0","3">>, <<"0","4">>,
    <<"1","1">>, <<"1","2">>, <<"1","3">>, <<"1","4">>, <<"1","5">>,
    <<"1","6">>, <<"1","7">>, <<"1","8">>, <<"1","9">>, <<"2","0">>,
    <<"3","1">>, <<"3","2">>, <<"3","3">>, <<"3","4">>, <<"3","5">>,
    <<"3","6">>, <<"4","1">> }

\* the element string of a list of pairs: FNC1 first, then FNC1 after every
\* AI whose prefix is not in the set
RECURSIVE ElementString(_, _)
ElementString(pairs, i) ==
  IF i > Len(pairs) THEN <<>>
  ELSE (IF i = 1 \/ Take(pairs[i - 1].ai, 2) \notin FixedPrefixSet THEN <<"#">> ELSE <<>>)
       \o pairs[i].ai \o pairs[i].value \o ElementString(pairs, i + 1)

(***************************************************************************)
(* Bracketed input                                                         *)
(***************************************************************************)
\* C1: a bracketed input that gs1_parseAIdata accepts on a context whose
\* table of extracted AIs is empty yields one entry for each declared pair,
\* in input order, with the declared key and the declared value after
\* unescaping; a short fixed-length value never takes digits of the next AI.
C1_BracketedRoundTrip ==
  (op = "parseAIdata" /\ ret /\ old.numAIs = 0)
    => /\ Declared(input).ok
       /\ ExtractedAIs = Declared(input).pairs

\* an accepted bracketed input that declares two AIs
C1_TwoAIsExtracted ==
  /\ op = "parseAIdata" /\ ret /\ old.numAIs = 0
  /\ Len(Declared(input).pairs) = 2
  /\ encoder.numAIs = 2

\* C2: the element string gs1_parseAIdata produces for an accepted input is
\* FNC1, the first AI and its value, then for every later AI an FNC1 exactly
\* when the first two digits of the AI before it are not in the fixed-prefix
\* set, the AI and its value; nothing follows the last value.
C2_FNC1Insertion ==
  (op = "parseAIdata" /\ ret)
    => /\ Declared(input).ok
       /\ outStr = ElementString(Declared(input).pairs, 1)

\* an accepted input with an FNC1 written between two AIs
C2_FNC1Between ==
  /\ op = "parseAIdata" /\ ret
  /\ \E k \in 2..Len(outStr) : outStr[k] = "#"

(***************************************************************************)
(* Failures                                                                *)
(***************************************************************************)
\* C3: whenever gs1_parseAIdata or gs1_parseDLuri returns false, whatever
\* the cause, the element-string buffer is empty, errFlag is set and the
\* error message is not empty.
C3_AllOrNothing ==
  (Parsed /\ ~ret)
    => /\ outStr = <<>>
       /\ encoder.errFlag
       /\ encoder.errMsg # <<>>

\* a parse that fails in the final processing of the element string and
\* leaves the element string in the buffer
C3_BufferKeptOnFailure ==
  /\ Parsed /\ ~ret
  /\ validatedAIs # <<>>
  /\ outStr # <<>>
  /\ encoder.errFlag /\ encoder.errMsg # <<>>

\* C4: when gs1_processAIdata returns false, called directly or as the last
\* step of a parse, the table of extracted AIs holds no entry added during
\* that call.
C4_NoPartialMutation ==
  (Called /\ ~ret)
    => /\ encoder.numAIs = old.numAIs
       /\ encoder.aiData = old.aiData

\* a failed call that has left an entry in the table
C4_EntryLeftByFailedCall ==
  /\ Called /\ ~ret
  /\ encoder.numAIs > old.numAIs

\* the same call made again on the context it has left
RepeatSucceeds ==
  CASE op = "parseAIdata" -> gs1_parseAIdata(encoder, input).ret
    [] op = "parseDLuri" -> gs1_parseDLuri(encoder, input).ret
    [] op = "processAIdata" -> gs1_processAIdata(encoder, input).ret
    [] OTHER -> TRUE

\* C5: on one context, after any sequence of calls, a successful call leaves
\* in the table exactly the AIs of its own input, none from earlier calls,
\* and the same call made again succeeds.
C5_EachParseResets ==
  (Called /\ ret)
    => /\ encoder.numAIs = Len(validatedAIs)
       /\ \A i \in 1..Len(validatedAIs) :
            /\ encoder.aiData[i].aiEntry = validatedAIs[i].aiEntry
            /\ encoder.aiData[i].value = validatedAIs[i].value
       /\ RepeatSucceeds

\* a successful call after which the table holds entries of an earlier call
C5_EntriesAccumulated ==
  /\ Called /\ ret
  /\ old.numAIs > 0
  /\ encoder.numAIs = old.numAIs + Len(validatedAIs)

(***************************************************************************)
(* The rules of the components, read on their own                          *)
(***************************************************************************)
\* the sum of the digits of v from k on, the last digit with weight 1, the
\* one before it 3, and so on alternately
RECURSIVE WeightedSum(_, _)
WeightedSum(v, k) ==
  IF k > Len(v) THEN 0
  ELSE (IF (Len(v) - k) % 2 = 1 THEN 3 ELSE 1) * DigitVal(v[k]) + WeightedSum(v, k + 1)

CheckDigitOK(v) ==
  /\ Len(v) > 0
  /\ \A k \in 1..Len(v) : v[k] \in Digits
  /\ WeightedSum(v, 1) % 10 = 0

ComponentOK(part, v) ==
  /\ part.min <= Len(v) /\ Len(v) <= part.max
  /\ \A k \in 1..Len(v) : v[k] \in (IF part.cset = cset_N THEN Digits ELSE cset82)
  /\ (\E j \in 1..Len(part.linters) : part.linters[j] = linter_csum) => CheckDigitOK(v)

\* v splits into the components i, i + 1, ... of the entry
RECURSIVE SplitsInto(_, _, _)
SplitsInto(entry, v, i) ==
  IF i > NumParts \/ entry.parts[i].cset = cset_none THEN v = <<>>
  ELSE \E n \in entry.parts[i].min..Min({entry.parts[i].max, Len(v)}) :
         /\ ComponentOK(entry.parts[i], Take(v, n))
         /\ SplitsInto(entry, SubSeq(v, n + 1, Len(v)), i + 1)

\* C6: after a successful gs1_processAIdata the value of every entry of the
\* table splits into the components of its AI, in order, each within its
\* minimum and maximum length, digits only in an N component and CSET 82
\* characters in any other, a correct mod-10 check digit at the end of every
\* component that carries the csum linter.
C6_ValuesMatchComponents ==
  (Called /\ ret)
    => \A i \in 1..encoder.numAIs : SplitsInto(ExtractedAI(i), ExtractedValue(i), 1)

\* an extracted value with a check-digit component and a second component
C6_TwoComponentsExtracted ==
  /\ Called /\ ret
  /\ \E i \in 1..encoder.numAIs :
       /\ ExtractedAI(i).parts[2].cset # cset_none
       /\ \E j \in 1..Len(ExtractedAI(i).parts[1].linters) :
            ExtractedAI(i).parts[1].linters[j] = linter_csum
       /\ Len(ExtractedValue(i)) > ExtractedAI(i).parts[1].max

(***************************************************************************)
(* FNC1 and the values                                                     *)
(***************************************************************************)
Chars(v) == {v[k] : k \in 1..Len(v)}

\* C7: after a successful call of any of the three, no extracted value
\* contains "#"; no accepted bracketed input declares a value with "#", and
\* no accepted Digital Link has an AI value that decodes to one with "#".
C7_NoFNC1InValues ==
  (Called /\ ret)
    => /\ \A i \in 1..encoder.numAIs : "#" \notin Chars(ExtractedValue(i))
       /\ op = "parseAIdata"
            => \A i \in 1..Len(Declared(input).pairs) :
                 "#" \notin Chars(Declared(input).pairs[i].value)
       /\ op = "parseDLuri"
            => \A i \in 1..Len(decodedVals) :
                 "#" \notin Chars(Take(decodedVals[i].aival, decodedVals[i].vallen))

\* a Digital Link rejected for an AI value that decodes to one with "#"
C7_DecodedFNC1Rejected ==
  /\ op = "parseDLuri" /\ ~ret
  /\ \E i \in 1..Len(decodedVals) :
       /\ "#" \in Chars(Take(decodedVals[i].aival, decodedVals[i].vallen))
       /\ encoder.errMsg = Msg("AI (%s) contains illegal # character", decodedVals[i].ai)

\* the position after the value of entry i
ValueEnd(i) == encoder.aiData[i].value + encoder.aiData[i].vallen

KeysAndValues(ctx, str) ==
  [i \in 1..ctx.numAIs |->
     [ai |-> ctx.aiData[i].aiEntry.ai,
      value |-> SubSeq(str, ctx.aiData[i].value,
                       ctx.aiData[i].value + ctx.aiData[i].vallen - 1)]]

InsertAt(s, p, c) == SubSeq(s, 1, p - 1) \o <<c>> \o SubSeq(s, p, Len(s))

\* C9: gs1_processAIdata accepts a "#" put after the value of an AI that
\* does not require FNC1, at the end of the string and before a following
\* AI, and extracts the same AIs and values as without it; for such an AI
\* the bytes after its value are read as the next AI and never reported as
\* data that is too long.
C9_Leniency ==
  op = "processAIdata"
    => /\ ret => \A i \in 1..encoder.numAIs :
                   (~ExtractedAI(i).fnc1 /\ at(input, ValueEnd(i)) # "#")
                     => LET withFNC1 == InsertAt(input, ValueEnd(i), "#")
                            res == gs1_processAIdata(old, withFNC1)
                        IN /\ res.ret
                           /\ KeysAndValues(res.ctx, withFNC1) = ExtractedAIs
       /\ \A i \in 1..Len(validatedAIs) :
            ~validatedAIs[i].aiEntry.fnc1
              => /\ encoder.errMsg
                      # Msg("AI (%s) data is too long", validatedAIs[i].aiEntry.ai)
                 /\ i < Len(validatedAIs)
                      => validatedAIs[i + 1].value
                           = skipFNC1(input, validatedAIs[i].value + validatedAIs[i].vallen)
                             + Len(validatedAIs[i + 1].aiEntry.ai)

\* an accepted element string with a fixed-length AI that runs into the next AI
C9_FixedRunsIntoNext ==
  /\ op = "processAIdata" /\ ret
  /\ encoder.numAIs = 2
  /\ ~ExtractedAI(1).fnc1
  /\ at(input, ValueEnd(1)) \in Digits

\* the validated AIs that require FNC1 and are followed by neither FNC1 nor
\* the end of the string
Overlong ==
  {i \in 1..Len(validatedAIs) :
     /\ validatedAIs[i].aiEntry.fnc1
     /\ at(outStr, validatedAIs[i].value + validatedAIs[i].vallen) \notin {"#", NUL}}

\* C10 as stated: when the character after the bytes the validator accepted
\* for an AI that requires FNC1 is neither "#" nor the end of the string,
\* the call fails with "AI (ai) data is too long".
C10_TooLong ==
  Called
    => \A i \in Overlong :
         /\ ~ret
         /\ encoder.errMsg
              = Msg("AI (%s) data is too long", validatedAIs[i].aiEntry.ai)

\* C10: in that case the call fails, with "AI (ai) data is too long" when
\* the table of extracted AIs had room for the AI and with "Too many AIs"
\* when it was full.
C10_TooLongUnlessFull ==
  Called
    => \A i \in Overlong :
         /\ ~ret
         /\ i = Len(validatedAIs)
         /\ encoder.errMsg
              = IF old.numAIs + i <= MAX_AIS
                  THEN Msg("AI (%s) data is too long", validatedAIs[i].aiEntry.ai)
                  ELSE Msg("Too many AIs", <<>>)

\* a call that fails for data beyond the value of an AI that requires FNC1
C10_TooLongReported ==
  /\ op = "processAIdata" /\ ~ret
  /\ Overlong # {}
  /\ old.numAIs + Len(validatedAIs) <= MAX_AIS
  /\ encoder.errMsg[1] = "AI (%s) data is too long"

(***************************************************************************)
(* The Digital Link URI read on its own: scheme, host, path info, query    *)
(* parameters                                                              *)
(***************************************************************************)
DLschemeLen(u) ==
  IF Take(u, 8) = <<"h","t","t","p","s",":","/","/">> THEN 8
  ELSE IF Take(u, 7) = <<"h","t","t","p",":","/","/">> THEN 7
  ELSE 0

\* the position of the "/" that ends a non-empty host, 0 when the URI has
\* an illegal character, no scheme, no host or no path info
DLpathInfo(u) ==
  IF (\E i \in 1..Len(u) : u[i] \notin uriCharacters) \/ DLschemeLen(u) = 0 THEN 0
  ELSE IF \A i \in (DLschemeLen(u) + 1)..Len(u) : u[i] # "/" THEN 0
  ELSE IF u[DLschemeLen(u) + 1] = "/" THEN 0
  ELSE Min({i \in (DLschemeLen(u) + 1)..Len(u) : u[i] = "/"})

\* the position of the "?" that ends the path info, 0 for none
DLqueryMark(u) ==
  IF \A i \in DLpathInfo(u)..Len(u) : u[i] # "?" THEN 0
  ELSE Min({i \in DLpathInfo(u)..Len(u) : u[i] = "?"})

DLpathEnd(u) == IF DLqueryMark(u) = 0 THEN Len(u) ELSE DLqueryMark(u) - 1

\* the positions of the "/" of the path info
DLslashes(u) == {i \in DLpathInfo(u)..DLpathEnd(u) : u[i] = "/"}

\* the "/" in front of the values of the pairs, counted from the right end
DLvalueSlashes(u) ==
  {v \in DLslashes(u) :
     /\ Cardinality({k \in DLslashes(u) : k > v}) % 2 = 0
     /\ \E k \in DLslashes(u) : k < v}

\* the "/" in front of the key of the pair whose value follows the "/" at v
DLkeySlash(u, v) == Max({k \in DLslashes(u) : k < v})

DLkey(u, v) == SubSeq(u, DLkeySlash(u, v) + 1, v - 1)

\* the end of the segment that starts after the "/" at v
DLsegmentEnd(u, v) ==
  IF \A k \in DLslashes(u) : k <= v THEN DLpathEnd(u)
  ELSE Min({k \in DLslashes(u) : k > v}) - 1

Registered(key) == \E i \in 1..Len(ai_table) : ai_table[i].ai = key

PrimaryKey(key) == \E i \in 1..Len(dl_pkeys) : dl_pkeys[i] = key

\* the "/" in front of the values of the pairs that can be the root
DLrootCandidates(u) ==
  {v \in DLvalueSlashes(u) :
     /\ Registered(DLkey(u, v)) /\ PrimaryKey(DLkey(u, v))
     /\ \A w \in DLvalueSlashes(u) : w > v => Registered(DLkey(u, w))}

\* the position of the "/" in front of the key of the root, 0 for none
DLroot(u) ==
  IF DLrootCandidates(u) = {} THEN 0
  ELSE DLkeySlash(u, Max(DLrootCandidates(u)))

\* the elements of a set of positions in increasing order
Ascending(S) ==
  [i \in 1..Cardinality(S) |-> CHOOSE x \in S : Cardinality({y \in S : y < x}) = i - 1]

\* the pairs of the path info from the root rightwards, each with its value
\* as written in the URI
DLpathPairs(u) ==
  [i \in 1..Cardinality({v \in DLvalueSlashes(u) : v > DLroot(u)}) |->
     [ai |-> DLkey(u, Ascending({v \in DLvalueSlashes(u) : v > DLroot(u)})[i]),
      raw |-> SubSeq(u, Ascending({v \in DLvalueSlashes(u) : v > DLroot(u)})[i] + 1,
                     DLsegmentEnd(u, Ascending({v \in DLvalueSlashes(u) : v > DLroot(u)})[i]))]]

\* the query parameters run from after the "?" to the "#" of the fragment
DLqueryEnd(u) ==
  IF \A i \in (DLqueryMark(u) + 1)..Len(u) : u[i] # "#" THEN Len(u)
  ELSE Min({i \in (DLqueryMark(u) + 1)..Len(u) : u[i] = "#"}) - 1

\* the first positions of the non-empty tokens between the "&"
DLtokenStarts(u) ==
  IF DLqueryMark(u) = 0 THEN {}
  ELSE {i \in (DLqueryMark(u) + 1)..DLqueryEnd(u) :
          u[i] # "&" /\ (i = DLqueryMark(u) + 1 \/ u[i - 1] = "&")}

DLtokenEnd(u, a) ==
  IF \A i \in a..DLqueryEnd(u) : u[i] # "&" THEN DLqueryEnd(u)
  ELSE Min({i \in a..DLqueryEnd(u) : u[i] = "&"}) - 1

\* the position of the "=" of the token that starts at a, 0 for a singleton
DLtokenEq(u, a) ==
  IF \A i \in a..DLtokenEnd(u, a) : u[i] # "=" THEN 0
  ELSE Min({i \in a..DLtokenEnd(u, a) : u[i] = "="})

DLtokenKey(u, a) == SubSeq(u, a, DLtokenEq(u, a) - 1)

Numeric(key) == key # <<>> /\ \A i \in 1..Len(key) : key[i] \in Digits

\* the tokens key=value whose key is a registered AI
DLrecognised(u) ==
  {a \in DLtokenStarts(u) :
     DLtokenEq(u, a) # 0 /\ Numeric(DLtokenKey(u, a)) /\ Registered(DLtokenKey(u, a))}

\* the tokens key=value whose key is numeric and not a registered AI
DLunknown(u) ==
  {a \in DLtokenStarts(u) :
     DLtokenEq(u, a) # 0 /\ Numeric(DLtokenKey(u, a)) /\ ~Registered(DLtokenKey(u, a))}

DLqueryPairs(u) ==
  [i \in 1..Cardinality(DLrecognised(u)) |->
     [ai |-> DLtokenKey(u, Ascending(DLrecognised(u))[i]),
      raw |-> SubSeq(u, DLtokenEq(u, Ascending(DLrecognised(u))[i]) + 1,
                     DLtokenEnd(u, Ascending(DLrecognised(u))[i]))]]

\* the AIs a URI declares, in the order of the URI
DLdeclared(u) == DLpathPairs(u) \o DLqueryPairs(u)

\* the AIs and values gs1_parseDLuri wrote, in the order it wrote them
DLemitted == [i \in 1..Len(decodedVals) |->
                [ai |-> decodedVals[i].ai, value |-> decodedVals[i].written]]

\* percent-decoding read on its own: %HH with two hex digits of either
\* case is the byte HH, every other character is itself
HexLower == <<"0","1","2","3","4","5","6","7","8","9","a","b","c","d","e","f">>

HexUpper == <<"0","1","2","3","4","5","6","7","8","9","A","B","C","D","E","F">>

IsHex(c) == \E n \in 1..16 : c = HexLower[n] \/ c = HexUpper[n]

HexValue(c) == (CHOOSE n \in 1..16 : c = HexLower[n] \/ c = HexUpper[n]) - 1

RECURSIVE PercentDecoded(_)
PercentDecoded(v) ==
  IF v = <<>> THEN <<>>
  ELSE IF v[1] = "%" /\ Len(v) >= 3 /\ IsHex(v[2]) /\ IsHex(v[3])
    THEN <<ByteChar[16 * HexValue(v[2]) + HexValue(v[3]) + 1]>>
           \o PercentDecoded(SubSeq(v, 4, Len(v)))
  ELSE <<v[1]>> \o PercentDecoded(Tail(v))

\* a value left-padded with "0" to 14 characters
PaddedTo14(d) == [k \in 1..(14 - Len(d)) |-> "0"] \o d

\* the tokens that are not skipped: key=value with a numeric key
DLkept(u) == {a \in DLtokenStarts(u) : DLtokenEq(u, a) # 0 /\ Numeric(DLtokenKey(u, a))}

\* the tokens from the i-th kept one, with "&" between them
RECURSIVE DLjoined(_, _)
DLjoined(u, i) ==
  IF i > Cardinality(DLkept(u)) THEN <<>>
  ELSE (IF i > 1 THEN <<"&">> ELSE <<>>)
         \o SubSeq(u, Ascending(DLkept(u))[i], DLtokenEnd(u, Ascending(DLkept(u))[i]))
         \o DLjoined(u, i + 1)

\* the URI without its empty tokens, its singletons and its parameters with
\* a key that is not numeric
DLstripped(u) ==
  IF DLqueryMark(u) = 0 THEN u
  ELSE SubSeq(u, 1, DLqueryMark(u)) \o DLjoined(u, 1) \o SubSeq(u, DLqueryEnd(u) + 1, Len(u))

(***************************************************************************)
(* Digital Link: the root of the path info                                 *)
(***************************************************************************)
\* C11: gs1_parseDLuri takes as root the rightmost /ai/value pair of the
\* path info, pairs counted from the right end, whose ai is a DL primary
\* key, provided every pair to its right has a registered AI; what is left
\* of the root is ignored, the first AI emitted being the root's; when
\* there is no such pair the call fails with "No GS1 DL keys found in path
\* info".
C11_RootDiscovery ==
  (op = "parseDLuri" /\ DLpathInfo(input) # 0)
    => /\ dlRoot = DLroot(input)
       /\ (DLroot(input) = 0) <=>
            (~ret /\ encoder.errMsg = Msg("No GS1 DL keys found in path info", <<>>))
       /\ (ret => decodedVals[1].ai =
                    SubSeq(input, dlRoot + 1,
                           Min({k \in DLslashes(input) : k > dlRoot}) - 1))

\* an accepted URI whose stem holds a pair with a registered AI
C11_StemLooksLikePair ==
  /\ op = "parseDLuri" /\ ret
  /\ dlRoot # 0
  /\ \E a \in DLslashes(input), c \in DLslashes(input) :
       /\ a < c /\ c < dlRoot
       /\ Registered(SubSeq(input, a + 1, c - 1))

C14_UnknownNumericKey ==
  (/\ op = "parseDLuri" /\ DLpathInfo(input) # 0 /\ DLroot(input) # 0
   /\ DLunknown(input) # {})
    => /\ ~ret
       /\ outStr = <<>>
       /\ encoder.errFlag
       /\ encoder.errMsg # <<>>

\* a URI rejected for its unknown numeric key, with a valid path and a
\* valid parameter in front of the key
C14_UnknownKeyReported ==
  /\ op = "parseDLuri" /\ ~ret
  /\ DLpathInfo(input) # 0 /\ DLroot(input) # 0
  /\ DLrecognised(input) # {}
  /\ \E a \in DLunknown(input) :
       encoder.errMsg = Msg("Unknown AI (%.*s) in query parameters", DLtokenKey(input, a))

\* C15: empty tokens between "&", tokens without "=" and parameters whose
\* key is not all digits are skipped by gs1_parseDLuri without error: the
\* result, the element string and the error state are those of the same
\* URI without these tokens, wherever they stand among the parameters.
C15_SkippedTokens ==
  (op = "parseDLuri" /\ DLpathInfo(input) # 0)
    => \A res \in {gs1_parseDLuri(old, DLstripped(input))} :
         /\ res.ret = ret
         /\ res.dataStr = outStr
         /\ res.ctx = encoder

\* an accepted URI with an empty token, a singleton or a parameter with a
\* key that is not numeric in front of a recognised parameter
C15_TokenSkipped ==
  /\ op = "parseDLuri" /\ ret
  /\ DLpathInfo(input) # 0 /\ DLroot(input) # 0
  /\ DLstripped(input) # input
  /\ \E a \in DLtokenStarts(input), c \in DLrecognised(input) :
       a < c /\ DLtokenEq(input, a) # 0 /\ ~Numeric(DLtokenKey(input, a))

(***************************************************************************)
(* Percent-decoding                                                        *)
(***************************************************************************)
\* C16: given room for its output, URIunescape reads the first inlen bytes
\* of its input from left to right, writes the byte HH for each %HH whose
\* two characters are hex digits of either case, %00 included, copies every
\* other byte, a "%" followed by a character that is no hex digit or by
\* fewer than two remaining bytes included, and returns the number of bytes
\* written.
C16_PercentDecoding ==
  (op = "URIunescape" /\ args.maxlen >= args.inlen)
    => /\ result.out = PercentDecoded(SubSeq(args.in, 1, args.inlen))
       /\ result.n = Len(result.out)

\* a call with one byte to decode, a "%", that decoded the bytes after it
C16_DecodedBeyondInlen ==
  /\ op = "URIunescape"
  /\ args.inlen = 1 /\ args.maxlen >= 1
  /\ args.in[1] = "%"
  /\ result.out # <<"%">>

\* C17: a URI with a root and a path or query value whose decoded length
\* exceeds MAX_AI_LEN is rejected by gs1_parseDLuri with an empty buffer:
\* no value is cut to MAX_AI_LEN bytes and then accepted.
C17_OverflowFails ==
  (/\ op = "parseDLuri" /\ DLpathInfo(input) # 0 /\ DLroot(input) # 0
   /\ DLunknown(input) = {}
   /\ \E i \in 1..Len(DLdeclared(input)) :
        Len(PercentDecoded(DLdeclared(input)[i].raw)) > MAX_AI_LEN)
    => /\ ~ret
       /\ outStr = <<>>

\* an accepted URI with a value whose decoded length exceeds MAX_AI_LEN, of
\* which MAX_AI_LEN bytes were written
C17_TruncatedAccepted ==
  /\ op = "parseDLuri" /\ ret
  /\ DLpathInfo(input) # 0 /\ DLroot(input) # 0
  /\ \E i \in 1..Len(decodedVals) :
       /\ Len(PercentDecoded(DLdeclared(input)[i].raw)) > MAX_AI_LEN
       /\ Len(decodedVals[i].written) = MAX_AI_LEN
       /\ encoder.aiData[i].vallen = MAX_AI_LEN

(***************************************************************************)
(* Bracketed input: the escaped bracket                                    *)
(***************************************************************************)
\* the brackets preceded by a backslash, the other opening brackets, the
\* backslashes not followed by an opening bracket
BracketsEscaped(s) ==
  Cardinality({p \in 2..Len(s) : s[p] = "(" /\ s[p - 1] = "\\"})

BracketsOpening(s) ==
  Cardinality({p \in 1..Len(s) : s[p] = "(" /\ (p = 1 \/ s[p - 1] # "\\")})

BackslashesKept(s) ==
  Cardinality({p \in 1..Len(s) : s[p] = "\\" /\ (p = Len(s) \/ s[p + 1] # "(")})

Occurrences(s, c) == Cardinality({p \in 1..Len(s) : s[p] = c})

\* C18: in the element string gs1_parseAIdata writes, every "(" preceded by
\* a backslash in the input stands as a "(" of a value, without the
\* backslash, also when it ends the input, and starts no AI; every
\* backslash before another character, or at the end, is copied; the AIs
\* are those that start at the other "(".
C18_EscapedBracket ==
  (op = "parseAIdata" /\ outStr # <<>>)
    => /\ Declared(input).ok
       /\ Len(Declared(input).pairs) = BracketsOpening(input)
       /\ outStr = ElementString(Declared(input).pairs, 1)
       /\ Occurrences(outStr, "(") = BracketsEscaped(input)
       /\ Occurrences(outStr, "\\") = BackslashesKept(input)
       /\ (ret /\ old.numAIs = 0) => encoder.numAIs = BracketsOpening(input)

\* an accepted input that ends with an escaped bracket, which ends the
\* value of the last AI
C18_EscapedBracketAtEnd ==
  /\ op = "parseAIdata" /\ ret
  /\ Len(input) > 2
  /\ input[Len(input)] = "(" /\ input[Len(input) - 1] = "\\"
  /\ outStr[Len(outStr)] = "("
  /\ Len(outStr) > 1 /\ outStr[Len(outStr) - 1] # "\\"

(***************************************************************************)
(* The check digit                                                         *)
(***************************************************************************)
\* the sum of the digits but the last, weighted 3 and 1 in turn from the
\* rightmost of them, which is weighted 3
RECURSIVE SumFromRight(_, _)
SumFromRight(v, k) ==
  IF k < 1 THEN 0
  ELSE (IF (Len(v) - 1 - k) % 2 = 0 THEN 3 ELSE 1) * DigitVal(v[k]) + SumFromRight(v, k - 1)

\* the same sum weighted in turn from the leftmost digit, which is weighted
\* 3 for an even length and 1 for an odd length
RECURSIVE SumFromLeft(_, _)
SumFromLeft(v, k) ==
  IF k > Len(v) - 1 THEN 0
  ELSE (IF (Len(v) % 2 = 0) = (k % 2 = 1) THEN 3 ELSE 1) * DigitVal(v[k])
         + SumFromLeft(v, k + 1)

ParityDigit(v) == DigitChar((10 - (SumFromRight(v, Len(v) - 1) % 10)) % 10)

\* C19: gs1_validateParity on a non-empty string of digits returns true
\* exactly when the last digit is (10 - (S mod 10)) mod 10, S being the sum
\* of the other digits weighted 3 and 1 in turn, the rightmost of them 3,
\* which makes the leftmost 3 for an even length and 1 for an odd length; on
\* true the buffer is unchanged, on false its last byte and no other is
\* replaced by that digit, and the call that follows on the same buffer
\* returns true and leaves it unchanged.
C19_ValidateParity ==
  /\ op = "validateParity"
       => /\ SumFromRight(args.str, Len(args.str) - 1) = SumFromLeft(args.str, 1)
          /\ result.ok <=> (args.str[Len(args.str)] = ParityDigit(args.str))
          /\ result.str = [args.str EXCEPT ![Len(args.str)] = ParityDigit(args.str)]
  /\ op = "validateParityAgain"
       => /\ result.ok
          /\ result.str = args.str
          /\ args.str = [input EXCEPT ![Len(input)] = ParityDigit(input)]

\* a buffer with a wrong check digit, corrected by the first call and
\* accepted by the second
C19_RecomputedThenValid ==
  /\ op = "validateParityAgain"
  /\ result.ok
  /\ Len(input) = 14
  /\ args.str # input

(***************************************************************************)
(* Validation and the bytes of the caller                                  *)
(***************************************************************************)
CheckDigitMsg(ai) == Msg("AI (%s): Incorrect check digit", ai)

\* at p of s, AI 01 and fourteen digits of which the last is not the check
\* digit of the thirteen before it
IncorrectGTINat(s, p) ==
  /\ p + 15 <= Len(s)
  /\ SubSeq(s, p, p + 1) = <<"0","1">>
  /\ \A k \in p + 2..p + 15 : s[k] \in Digits
  /\ s[p + 15] # ParityDigit(SubSeq(s, p + 2, p + 15))

\* C20: gs1_processAIdata leaves the element string it is given as it was,
\* whether it accepts it or not, and the values the call extracted, read in
\* it, are the bytes of the input; an element string that begins with a GTIN whose check
\* digit is incorrect is refused with "Incorrect check digit" and still holds
\* the digit it came with; after any call refused for the check digit of a
\* GTIN the element string still holds a GTIN with an incorrect check digit
C20_NoSilentRewrite ==
  /\ op = "processAIdata"
       => /\ outStr = input
          /\ \A i \in old.numAIs + 1..encoder.numAIs :
               ExtractedValue(i) = SubSeq(input, encoder.aiData[i].value, ValueEnd(i) - 1)
          /\ (Len(input) > 0 /\ input[1] = "#" /\ IncorrectGTINat(input, 2))
               => /\ ~ret
                  /\ encoder.errMsg = CheckDigitMsg(<<"0","1">>)
                  /\ outStr[17] = input[17]
  /\ (~ret /\ encoder.errMsg = CheckDigitMsg(<<"0","1">>))
       => \E p \in 1..Len(outStr) : IncorrectGTINat(outStr, p)

\* a GTIN with an incorrect check digit refused after another AI was extracted
C20_RefusedAfterExtraction ==
  /\ op = "processAIdata"
  /\ ~ret
  /\ encoder.errMsg = CheckDigitMsg(<<"0","1">>)
  /\ encoder.numAIs > 0
  /\ ExtractedValue(1) = <<"9","9","1","2","2","5">>
  /\ IncorrectGTINat(outStr, 10)

(***************************************************************************)
(* The URI buffer of the caller                                            *)
(***************************************************************************)
\* C21 as stated: on every return of gs1_parseDLuri, successful or failed,
\* the URI buffer of the caller holds the bytes it held at the call
C21_BufferRestored ==
  op = "parseDLuri" => uriBuf = input

\* a call refused for the lack of a DL key that returns with the first "/"
\* of the path info still overwritten with NUL, the rest being as it was
C21_PathStartLeftNUL ==
  /\ op = "parseDLuri"
  /\ ~ret
  /\ encoder.errMsg = Msg("No GS1 DL keys found in path info", <<>>)
  /\ DLpathInfo(input) # 0
  /\ input[DLpathInfo(input)] = "/"
  /\ uriBuf = [input EXCEPT ![DLpathInfo(input)] = NUL]

(***************************************************************************)
(* The capacity of the table of extracted AIs                              *)
(***************************************************************************)
\* C22: after any sequence of calls on one context numAIs is at most MAX_AIS
\* and the table holds numAIs entries, none beyond MAX_AIS; a call that gets
\* through the component validator more AIs than the table had room for, one
\* more AI when the table already held MAX_AIS entries, fails with "Too many
\* AIs" at the first AI without room and leaves the entries it found
C22_Capacity ==
  /\ encoder.numAIs <= MAX_AIS
  /\ Len(encoder.aiData) = encoder.numAIs
  /\ (Called /\ old.numAIs + Len(validatedAIs) > MAX_AIS)
       => /\ ~ret
          /\ encoder.errMsg = Msg("Too many AIs", <<>>)
          /\ encoder.errFlag
          /\ Len(validatedAIs) = MAX_AIS - old.numAIs + 1
          /\ encoder.numAIs = MAX_AIS
          /\ SubSeq(encoder.aiData, 1, old.numAIs) = old.aiData
  /\ (Called /\ old.numAIs = MAX_AIS /\ validatedAIs # <<>>)
       => encoder.aiData = old.aiData

\* a call made with the table full that fails with "Too many AIs"
C22_OneTooMany ==
  /\ Called
  /\ old.numAIs = MAX_AIS
  /\ validatedAIs # <<>>
  /\ ~ret
  /\ encoder.errMsg = Msg("Too many AIs", <<>>)

(***************************************************************************)
(* Two contexts.  result holds the memory of the two contexts A and B,     *)
(* each with its own buffers; args holds the static tables; encoder,       *)
(* outStr, uriBuf and ret follow a context that receives the calls made on *)
(* A and nothing else.                                                     *)
(***************************************************************************)
Contexts == {"A", "B"}

\* a context after gs1_encoder_init, with its buffers
newContext ==
  [ctx |-> [errMsg |-> <<>>, errFlag |-> FALSE, numAIs |-> 0, aiData |-> <<>>],
   dataStr |-> <<>>, dlData |-> <<>>, ret |-> TRUE]

staticTables ==
  [ai_table |-> ai_table, fixedAIprefixes |-> fixedAIprefixes, dl_pkeys |-> dl_pkeys]

\* a library that keeps the error message and flag in one place for all
\* contexts
writeContext_sharedError(mem, c, res) ==
  [d \in DOMAIN mem |->
     IF d = c THEN res
     ELSE [mem[d] EXCEPT !.ctx.errMsg = res.ctx.errMsg, !.ctx.errFlag = res.ctx.errFlag]]

\* the calls write through the ctx, dataStr and dlData they are given and
\* nowhere else
writeContext(mem, c, res) ==
  [mem EXCEPT ![c] = res]

\* one call on a context cs with its buffers: the context and buffers after
callOn(fn, cs, s) ==
  CASE fn = "parseAIdata" ->
         Only({ [ctx |-> res.ctx, dataStr |-> res.dataStr, dlData |-> cs.dlData,
                 ret |-> res.ret] : res \in {gs1_parseAIdata(cs.ctx, s)} })
    [] fn = "parseDLuri" ->
         Only({ [ctx |-> res.ctx, dataStr |-> res.dataStr, dlData |-> res.dlData,
                 ret |-> res.ret] : res \in {gs1_parseDLuri(cs.ctx, s)} })
    [] fn = "processAIdata" ->
         Only({ [ctx |-> res.ctx, dataStr |-> res.dataStr, dlData |-> cs.dlData,
                 ret |-> res.ret] : res \in {gs1_processAIdata(cs.ctx, s)} })

InitContexts ==
  /\ encoder = newContext.ctx
  /\ outStr = <<>>
  /\ uriBuf = <<>>
  /\ ret = TRUE
  /\ op = "init"
  /\ input = <<>>
  /\ old = encoder
  /\ calls = 0
  /\ validatedAIs = <<>>
  /\ decodedVals = <<>>
  /\ dlRoot = 0
  /\ args = staticTables
  /\ result = [c \in Contexts |-> newContext]

\* a call on A: made on A in the memory of the two contexts, and on the
\* context that receives nothing else
CallOnA(fn, s) ==
  /\ calls < MaxCalls
  /\ \E res \in {callOn(fn, result["A"], s)},
        alone \in {callOn(fn, [ctx |-> encoder, dataStr |-> outStr, dlData |-> uriBuf,
                               ret |-> ret], s)} :
       /\ result' = writeContext(result, "A", res)
       /\ encoder' = alone.ctx
       /\ outStr' = alone.dataStr
       /\ uriBuf' = alone.dlData
       /\ ret' = alone.ret
  /\ op' = fn
  /\ input' = s
  /\ old' = encoder
  /\ calls' = calls + 1
  /\ UNCHANGED <<validatedAIs, decodedVals, dlRoot, args>>

\* a call on B
CallOnB(fn, s) ==
  /\ calls < MaxCalls
  /\ \E res \in {callOn(fn, result["B"], s)} :
       result' = writeContext(result, "B", res)
  /\ calls' = calls + 1
  /\ UNCHANGED <<encoder, outStr, uriBuf, ret, op, input, old, validatedAIs, decodedVals,
                 dlRoot, args>>

NextContexts ==
  \/ \E s \in SeqAIdataInputs : CallOnA("parseAIdata", s)
  \/ \E s \in SeqDLuriInputs : CallOnA("parseDLuri", s)
  \/ \E s \in SeqDataStrInputs : CallOnA("processAIdata", s)
  \/ \E s \in SeqAIdataInputs : CallOnB("parseAIdata", s)
  \/ \E s \in SeqDLuriInputs : CallOnB("parseDLuri", s)
  \/ \E s \in SeqDataStrInputs : CallOnB("processAIdata", s)

SpecContexts == InitContexts /\ [][NextContexts]_vars

LookupChars == {"2", "3", "5", "7", "X"}

RECURSIVE LookupBuffers(_)
LookupBuffers(n) ==
  IF n = 0 THEN {<<>>}
  ELSE LookupBuffers(n - 1)
         \cup {Append(b, c) : b \in {x \in LookupBuffers(n - 1) : Len(x) = n - 1},
                              c \in LookupChars}

\* the buffers of the unit test
LookupTested ==
  { <<"0","1">>, <<"0","1","1","2","3","4">>, <<"8","0","1","2">>,
    <<"2","3","4","5","X","X">>, <<"2","3","4","X","X","X">>, <<"2","3","X","X","X","X">>,
    <<"2","X","X","X","X","X">>, <<"X","X","X","X","X","X">>, <<"2","3","4","5","6","7">>,
    <<"2","3","5","X","X","X">>, <<"3","7","1","2","3">> }

\* the length is at most that of the buffer, as the function asserts
LookupArgs ==
  {a \in [p : LookupBuffers(MaxLookupLen) \cup LookupTested, ailen : 0..MaxLookupLen] :
     a.ailen <= Len(a.p)}

InitLookup ==
  /\ encoder = [errMsg |-> <<>>, errFlag |-> FALSE, numAIs |-> 0, aiData |-> <<>>]
  /\ outStr = <<>>
  /\ uriBuf = <<>>
  /\ ret = TRUE
  /\ op = "init"
  /\ input = <<>>
  /\ old = encoder
  /\ calls = 0
  /\ validatedAIs = <<>>
  /\ decodedVals = <<>>
  /\ dlRoot = 0
  /\ args \in LookupArgs
  /\ result = <<>>

CallLookup ==
  /\ op = "init"
  /\ op' = "lookupAIentry"
  /\ result' = [entry |-> lookupAIentry(args.p, args.ailen)]
  /\ UNCHANGED <<encoder, outStr, uriBuf, ret, input, old, calls, validatedAIs,
                 decodedVals, dlRoot, args>>

NextLookup == CallLookup

SpecLookup == InitLookup /\ [][NextLookup]_vars

\* key is the bytes b begins with
PrefixOf(key, b) == Len(key) <= Len(b) /\ SubSeq(b, 1, Len(key)) = key

\* C24: with a length above 0 lookupAIentry finds an entry exactly when the
\* first length characters of the buffer are a registered AI, and the entry
\* is that of this AI, never a shorter or longer AI sharing a prefix; with
\* length 0 it finds an entry exactly when some registered AI is a prefix of
\* the buffer, and the AI of the entry is a prefix of the buffer
C24_LookupExactOrPrefix ==
  op = "lookupAIentry"
    => /\ result.entry # NULL => \E i \in 1..Len(ai_table) : ai_table[i] = result.entry
       /\ args.ailen > 0
            => /\ result.entry # NULL <=> Registered(SubSeq(args.p, 1, args.ailen))
               /\ result.entry # NULL => result.entry.ai = SubSeq(args.p, 1, args.ailen)
       /\ args.ailen = 0
            => /\ result.entry # NULL
                    <=> \E i \in 1..Len(ai_table) : PrefixOf(ai_table[i].ai, args.p)
               /\ result.entry # NULL => PrefixOf(result.entry.ai, args.p)

\* the buffer begins with a registered AI of three characters and the
\* lookup of its first two finds nothing
C24_LongerAINotFound ==
  /\ op = "lookupAIentry"
  /\ args.ailen = 2
  /\ Len(args.p) > 3
  /\ result.entry = NULL
  /\ Registered(SubSeq(args.p, 1, 3))

(***************************************************************************)
(* The tables entry by entry: args is [i, tail], an entry of ai_table and  *)
(* the data that follows its AI in a buffer                                *)
(***************************************************************************)
RegistryTails == { <<>>, <<"0">>, <<"1","X">>, <<"9","9","9">> }

InitRegistry ==
  /\ encoder = [errMsg |-> <<>>, errFlag |-> FALSE, numAIs |-> 0, aiData |-> <<>>]
  /\ outStr = <<>>
  /\ uriBuf = <<>>
  /\ ret = TRUE
  /\ op = "init"
  /\ input = <<>>
  /\ old = encoder
  /\ calls = 0
  /\ validatedAIs = <<>>
  /\ decodedVals = <<>>
  /\ dlRoot = 0
  /\ args \in [i : 1..Len(ai_table), tail : RegistryTails]
  /\ result = <<>>

Reverse(s) == [k \in 1..Len(s) |-> s[Len(s) + 1 - k]]

\* the prefix lookup of a buffer that begins with the AI of the entry, over
\* the table and over the table in the opposite order
LookupPrefix ==
  /\ op = "init"
  /\ op' = "lookupPrefix"
  /\ input' = ai_table[args.i].ai \o args.tail
  /\ result' = [entry |-> lookupAIwalk(ai_table, input', 0),
                reversed |-> lookupAIwalk(Reverse(ai_table), input', 0)]
  /\ UNCHANGED <<encoder, outStr, uriBuf, ret, old, calls, validatedAIs,
                 decodedVals, dlRoot, args>>

\* the parsers write the AI of the entry and decide by its prefix whether an
\* FNC1 is required before the next AI
WriteAI ==
  /\ op = "init"
  /\ op' = "writeAI"
  /\ input' = ai_table[args.i].ai
  /\ result' = [entry |-> ai_table[args.i], fnc1req |-> fnc1reqAfter(ai_table[args.i])]
  /\ UNCHANGED <<encoder, outStr, uriBuf, ret, old, calls, validatedAIs,
                 decodedVals, dlRoot, args>>

NextRegistry ==
  \/ LookupPrefix
  \/ WriteAI

SpecRegistry == InitRegistry /\ [][NextRegistry]_vars

\* C25: no other entry of ai_table has the AI of an entry or an AI that
\* begins with it; so exactly one entry is a prefix of a buffer that begins
\* with a registered AI, and the prefix lookup finds that entry whether the
\* table is walked in its order or in the opposite one
C25_KeysPrefixFree ==
  /\ \A j \in 1..Len(ai_table) :
       j # args.i => /\ ai_table[j].ai # ai_table[args.i].ai
                     /\ ~PrefixOf(ai_table[args.i].ai, ai_table[j].ai)
  /\ op = "lookupPrefix"
       => /\ Cardinality({j \in 1..Len(ai_table) : PrefixOf(ai_table[j].ai, input)}) = 1
          /\ result.entry = ai_table[args.i]
          /\ result.reversed = result.entry

\* the prefix lookup of a buffer that begins with an AI of two characters
\* whose first three characters look like a longer AI
C25_ShortAIThenDigit ==
  /\ op = "lookupPrefix"
  /\ Len(ai_table[args.i].ai) = 2
  /\ args.tail = <<"0">>
  /\ result.entry.ai = SubSeq(input, 1, 2)
  /\ result.reversed = result.entry
  /\ \E j \in 1..Len(ai_table) : Len(ai_table[j].ai) = 3 /\ ai_table[j].ai[1] = input[1]

\* C26: for every entry of ai_table the fnc1 flag is false exactly when the
\* first two characters of its AI are in fixedAIprefixes, every component of
\* an entry with the flag false has min = max, and the decision the parsers
\* take by prefix after writing the AI is the flag of the entry
C26_FlagAgreesWithPrefix ==
  LET entry == ai_table[args.i] IN
  /\ ~entry.fnc1 <=> \E k \in 1..Len(fixedAIprefixes) :
                        fixedAIprefixes[k] = SubSeq(entry.ai, 1, 2)
  /\ ~entry.fnc1 => \A k \in 1..NumParts : entry.parts[k].min = entry.parts[k].max
  /\ op = "writeAI" => result.fnc1req = result.entry.fnc1

\* an entry with an AI of four characters and the flag false, after which
\* the parsers, looking at its first two characters, require no FNC1
C26_FixedLongAI ==
  /\ op = "writeAI"
  /\ Len(result.entry.ai) = 4
  /\ ~result.entry.fnc1
  /\ ~result.fnc1req
  /\ result.entry.parts[1].min = result.entry.parts[1].max

(***************************************************************************)
(* The loops iteration by iteration.  result is the state of one loop:     *)
(* [loop, done, iters, ctx, b, dataStr, pi, p, fnc1req, decoded,           *)
(* validated], b the buffer the loop reads, p its cursor (r for the value  *)
(* scan), pi the start of the path info, iters the iterations counted;     *)
(* args keeps the state in which the loop was entered.                     *)
(***************************************************************************)
LoopStart(loop, ctx, b, dataStr, pi, p, fnc1req, decoded) ==
  [loop |-> loop, done |-> FALSE, iters |-> 0, ctx |-> ctx, b |-> b, dataStr |-> dataStr,
   pi |-> pi, p |-> p, fnc1req |-> fnc1req, decoded |-> decoded, validated |-> <<>>]

\* gs1_parseAIdata enters its loop over the AIs at the start of the input
AIloopStarts ==
  {LoopStart("parseAIdata", newContext.ctx, s, <<>>, 0, 1, TRUE, <<>>) : s \in AIdataInputs}

\* the value scan is entered after the ")" of each AI that has data
AIvalueStarts ==
  UNION {{LoopStart("parseAIvalue", newContext.ctx, s, <<>>, 0, r, TRUE, <<>>)
            : r \in {k \in 2..Len(s) : s[k - 1] = ")"}} : s \in AIdataInputs}

\* gs1_parseDLuri enters the search backwards at the start of the path
\* info, the loop over the path at the root it found, and the loop over the
\* query parameters after the path was written
DLscanStarts ==
  {LoopStart("parseDLscan", newContext.ctx, hd.b, <<>>, hd.pi, hd.pi, TRUE, <<>>)
     : hd \in {h \in {parseDLhead(u) : u \in DLuriInputs} : h.msg = ""}}

DLpathStarts ==
  {LoopStart("parseDLpath", newContext.ctx, sc.b, <<>>, 0, sc.dp, TRUE, <<>>)
     : sc \in {s \in {parseDLscan(st.b, st.pi, st.pi) : st \in DLscanStarts} : s.dp # 0}}

DLqueryStarts ==
  UNION {{LoopStart("parseDLquery", pa.ctx, parseDLfragment(hd.b, hd.qp).b, pa.dataStr,
                    0, hd.qp, pa.fnc1req, pa.decoded)
            : pa \in {x \in {parseDLpath(newContext.ctx, sc.b, <<>>, sc.dp, TRUE, <<>>)
                               : sc \in {s \in {parseDLscan(hd.b, hd.pi, hd.pi)} : s.dp # 0}}
                        : x.ok}}
           : hd \in {h \in {parseDLhead(u) : u \in DLuriInputs} : h.msg = ""}}

\* gs1_processAIdata enters its loop after the FNC1 in first position
processStarts ==
  {LoopStart("processAIdata", newContext.ctx, s, s, 0, 2, TRUE, <<>>)
     : s \in {x \in DataStrInputs : Len(x) > 1 /\ x[1] = "#"}}

InitLoops ==
  /\ encoder = newContext.ctx
  /\ outStr = <<>>
  /\ uriBuf = <<>>
  /\ ret = TRUE
  /\ op = "init"
  /\ input = <<>>
  /\ old = encoder
  /\ calls = 0
  /\ validatedAIs = <<>>
  /\ decodedVals = <<>>
  /\ dlRoot = 0
  /\ args = LoopStart("none", newContext.ctx, <<>>, <<>>, 0, 0, TRUE, <<>>)
  /\ result = args

Counted(n) == IF n < MaxIters THEN n + 1 ELSE n

LoopFrame ==
  UNCHANGED <<encoder, outStr, uriBuf, ret, input, old, calls, validatedAIs, decodedVals,
              dlRoot, args>>

\* a call comes to one of its loops
EnterLoop ==
  /\ result.loop = "none"
  /\ op' = "enter"
  /\ result' \in AIloopStarts \cup AIvalueStarts \cup DLscanStarts \cup DLpathStarts
                   \cup DLqueryStarts \cup processStarts
  /\ args' = result'
  /\ UNCHANGED <<encoder, outStr, uriBuf, ret, input, old, calls, validatedAIs, decodedVals,
                 dlRoot>>

\* while (*p) of gs1_parseAIdata
StepParseAIdata ==
  /\ result.loop = "parseAIdata" /\ ~result.done
  /\ op' = "parseAIdata"
  /\ IF result.p > Len(result.b) THEN result' = [result EXCEPT !.done = TRUE]
     ELSE \E it \in {parseAIiter(result.ctx, result.b, result.dataStr, result.p,
                                 result.fnc1req)} :
            result' = [result EXCEPT !.done = it.exit, !.iters = Counted(@),
                                     !.ctx = it.ctx, !.dataStr = it.dataStr, !.p = it.p,
                                     !.fnc1req = it.fnc1req]
  /\ LoopFrame

\* the label again of gs1_parseAIdata
StepParseAIvalue ==
  /\ result.loop = "parseAIvalue" /\ ~result.done
  /\ op' = "parseAIvalue"
  /\ \E it \in {parseAIvalueIter(result.b, result.dataStr, result.p)} :
       result' = [result EXCEPT !.done = ~it.again, !.iters = Counted(@),
                                !.dataStr = it.dataStr, !.p = it.r]
  /\ LoopFrame

\* while ((r = strrchr(pi, '/')) != NULL) of gs1_parseDLuri
StepParseDLscan ==
  /\ result.loop = "parseDLscan" /\ ~result.done
  /\ op' = "parseDLscan"
  /\ IF strrchr(result.b, result.pi, "/") = 0 THEN result' = [result EXCEPT !.done = TRUE]
     ELSE \E it \in {parseDLscanIter(result.b, result.pi, result.p)} :
            result' = [result EXCEPT !.done = it.exit, !.iters = Counted(@),
                                     !.b = it.b, !.p = it.p]
  /\ LoopFrame

\* while (*p) over the DL path info
StepParseDLpath ==
  /\ result.loop = "parseDLpath" /\ ~result.done
  /\ op' = "parseDLpath"
  /\ IF at(result.b, result.p) = NUL THEN result' = [result EXCEPT !.done = TRUE]
     ELSE \E it \in {parseDLpathIter(result.ctx, result.b, result.dataStr, result.p,
                                     result.fnc1req, result.decoded)} :
            result' = [result EXCEPT !.done = it.exit, !.iters = Counted(@),
                                     !.ctx = it.ctx, !.dataStr = it.dataStr, !.p = it.p,
                                     !.fnc1req = it.fnc1req, !.decoded = it.decoded]
  /\ LoopFrame

\* while (p && *p) over the query parameters
StepParseDLquery ==
  /\ result.loop = "parseDLquery" /\ ~result.done
  /\ op' = "parseDLquery"
  /\ IF result.p = 0 \/ at(result.b, result.p) = NUL
       THEN result' = [result EXCEPT !.done = TRUE]
     ELSE \E it \in {parseDLqueryIter(result.ctx, result.b, result.dataStr, result.p,
                                      result.fnc1req, result.decoded)} :
            result' = [result EXCEPT !.done = it.exit, !.iters = Counted(@),
                                     !.ctx = it.ctx, !.dataStr = it.dataStr, !.p = it.p,
                                     !.fnc1req = it.fnc1req, !.decoded = it.decoded]
  /\ LoopFrame

\* while (*p) of gs1_processAIdata
StepProcessAIdata ==
  /\ result.loop = "processAIdata" /\ ~result.done
  /\ op' = "processAIdata"
  /\ IF result.p > Len(result.b) THEN result' = [result EXCEPT !.done = TRUE]
     ELSE \E it \in {processAIiter(result.ctx, result.b, result.p, result.validated)} :
            result' = [result EXCEPT !.done = it.exit, !.iters = Counted(@),
                                     !.ctx = it.ctx, !.b = it.dataStr,
                                     !.dataStr = it.dataStr, !.p = it.p,
                                     !.validated = it.validated]
  /\ LoopFrame

NextLoops ==
  \/ EnterLoop
  \/ StepParseAIdata
  \/ StepParseAIvalue
  \/ StepParseDLscan
  \/ StepParseDLpath
  \/ StepParseDLquery
  \/ StepProcessAIdata

SpecLoops == InitLoops /\ [][NextLoops]_vars

\* what is left for the loop to read: the path info that remains for the
\* search backwards, the bytes from the cursor to the end for the others
Remaining(st) ==
  IF st.loop = "parseDLscan" THEN cend(st.b, st.pi) - st.pi
  ELSE Len(st.b) + 1 - st.p

LoopAdvances ==
  (result.loop # "none" /\ ~result'.done)
    => /\ Remaining(result') < Remaining(result)
       /\ Remaining(result') >= 0

\* C27: every iteration of the loop over the bracketed AIs, of the value
\* scan, of the search backwards, of the loops over the DL path info and
\* the query parameters and of the loop of gs1_processAIdata either leaves
\* the loop or leaves strictly less to read, and never less than nothing: a
\* loop makes at most as many iterations as it had bytes to read when the
\* call came to it
C27_Terminates ==
  [][LoopAdvances]_vars

\* the loop over the query parameters left after more than one iteration,
\* with "&" separators jumped and a parameter skipped
C27_QueryLoopLeft ==
  /\ result.loop = "parseDLquery"
  /\ result.done
  /\ result.iters >= 2
  /\ result.p > args.p + 1
  /\ at(result.b, result.p) = NUL

(***************************************************************************)
(* Error state and result                                                  *)
(***************************************************************************)
\* C28: after any call of gs1_parseAIdata, gs1_parseDLuri or
\* gs1_processAIdata, on a fresh context or on one that an earlier call
\* left with an error, the call returned false if and only if errFlag is
\* true, and errFlag is true if and only if errMsg is not empty; so a
\* successful call leaves neither the flag nor the message of an earlier
\* failed call.
C28_ErrorStateConsistent ==
  Called => /\ ~ret <=> encoder.errFlag
            /\ encoder.errFlag <=> encoder.errMsg # <<>>

\* a successful call on a context that the call before left with its flag
\* and message set
C28_ClearedAfterFailure ==
  /\ Called
  /\ calls = 2
  /\ old.errFlag /\ old.errMsg # <<>>
  /\ ret
  /\ ~encoder.errFlag /\ encoder.errMsg = <<>>

(***************************************************************************)
(* The value checked and the value emitted                                 *)
(***************************************************************************)
\* C29: for every AI of a successful gs1_parseDLuri, the number of bytes
\* appended to the element string equals the decoded length vallen passed
\* to aiValLengthContentCheck and the appended bytes are the decoded bytes,
\* also when the decoded value contains a zero byte from %00.
C29_EmittedIsChecked ==
  (op = "parseDLuri" /\ ret)
    => \A i \in 1..Len(decodedVals) :
         /\ Len(decodedVals[i].written) = decodedVals[i].vallen
         /\ decodedVals[i].written = Take(decodedVals[i].aival, decodedVals[i].vallen)

\* a successful parse of a value with a zero byte from %00: the length
\* checked counts the zero byte and what follows it, the bytes appended end
\* before it
C29_CutAtZeroByte ==
  /\ op = "parseDLuri" /\ ret
  /\ \E i \in 1..Len(decodedVals) :
       /\ NUL \in Chars(Take(decodedVals[i].aival, decodedVals[i].vallen))
       /\ Len(decodedVals[i].written) < decodedVals[i].vallen
       /\ decodedVals[i].written = cstr(decodedVals[i].aival, 1)

(***************************************************************************)
(* GTIN padding and the check digit: gs1_validateParity on a GTIN-8, -12   *)
(* or -13, on the same digits as gs1_parseDLuri pads them, and             *)
(* gs1_parseDLuri on the URI that carries them as its AI 01                *)
(***************************************************************************)
\* the GTIN-13, GTIN-12 and GTIN-8 of the tests, without their last two
\* digits
GTINStems ==
  { <<"2","1","1","2","3","4","5","6","7","8","9">>,
    <<"2","1","1","2","2","3","3","7","8","9","6">>,
    <<"4","1","6","0","0","0","3","3","6","1">>,
    <<"0","2","3","4","5","6">>,
    <<"9","5","2","0","1","2","3","4","5","6","7">> }

\* every pair of digits in the last two places
GTINInputs == {stem \o <<a, b>> : stem \in GTINStems, a \in Digits, b \in Digits}

InitPadGTIN ==
  /\ encoder = [errMsg |-> <<>>, errFlag |-> FALSE, numAIs |-> 0, aiData |-> <<>>]
  /\ outStr = <<>>
  /\ uriBuf = <<>>
  /\ ret = TRUE
  /\ op = "init"
  /\ input = <<>>
  /\ old = encoder
  /\ calls = 0
  /\ validatedAIs = <<>>
  /\ decodedVals = <<>>
  /\ dlRoot = 0
  /\ args \in {[str |-> v] : v \in GTINInputs}
  /\ result = <<>>

\* gs1_validateParity on the GTIN as given
ValidateGTIN ==
  /\ op = "init"
  /\ op' = "validateParity"
  /\ result' = [given |-> gs1_validateParity(args.str)]
  /\ UNCHANGED <<encoder, outStr, uriBuf, ret, input, old, calls, validatedAIs,
                 decodedVals, dlRoot, args>>

\* the padding of gs1_parseDLuri and gs1_validateParity on its outcome
PadGTIN ==
  /\ op = "validateParity"
  /\ op' = "padGTIN"
  /\ \E g \in {padGTIN(lookupAIentry(<<"0","1">>, 2), args.str, Len(args.str))} :
       result' = [given |-> result.given, aival |-> g.aival, vallen |-> g.vallen,
                  padded |-> gs1_validateParity(Take(g.aival, g.vallen))]
  /\ UNCHANGED <<encoder, outStr, uriBuf, ret, input, old, calls, validatedAIs,
                 decodedVals, dlRoot, args>>

\* gs1_parseDLuri on https://a/01/ followed by the GTIN
ParseGTIN ==
  /\ op = "padGTIN"
  /\ ParseDLuri(https_a \o <<"/","0","1","/">> \o args.str)

NextPadGTIN ==
  \/ ValidateGTIN
  \/ PadGTIN
  \/ ParseGTIN

SpecPadGTIN == InitPadGTIN /\ [][NextPadGTIN]_vars

\* C30: for every digit string v of length 8, 12 or 13, gs1_validateParity
\* accepts v left-padded with "0" to 14 digits if and only if it accepts
\* v, so gs1_parseDLuri accepts the padded AI 01 value of a URI exactly
\* when the GTIN-8, -12 or -13 of the URI carries a correct check digit.
C30_PaddingKeepsVerdict ==
  /\ op \in {"padGTIN", "parseDLuri"}
       => /\ Len(args.str) \in {8, 12, 13}
          /\ result.vallen = 14
          /\ Take(result.aival, 14) = PaddedTo14(args.str)
          /\ result.padded.ok <=> result.given.ok
  /\ op = "parseDLuri"
       => /\ ret <=> result.given.ok
          /\ ret <=> (args.str[Len(args.str)] = ParityDigit(args.str))
          /\ ret => outStr = <<"#","0","1">> \o PaddedTo14(args.str)
          /\ ~ret => encoder.errMsg = CheckDigitMsg(<<"0","1">>)

\* a GTIN-8 with a correct check digit accepted and written with six zeros
\* before it
C30_PaddedGTIN8Accepted ==
  /\ op = "parseDLuri"
  /\ Len(args.str) = 8
  /\ result.given.ok /\ result.padded.ok
  /\ ret
  /\ outStr = <<"#","0","1","0","0","0","0","0","0">> \o args.str

====
